---- MODULE Spec2Model ----
(***************************************************************************)
(* RetailOS: the adaptive schema manager                                   *)
(* (src/src/ingestion/adaptive_schema_manager.py), the schema governance   *)
(* dashboard (src/dashboards/schema_dashboard.py), the batch ingestion     *)
(* pipeline (src/src/ingestion/batch_pipeline.py), the batch scheduler     *)
(* (src/src/ingestion/batch_scheduler.py) and the SCD Type 2 step          *)
(* (src/src/transformation/scd_type2.py).  The state is the in-memory      *)
(* schema registry of one AdaptiveSchemaManager, the two DuckDB tables it  *)
(* and the dashboard write to, the record of the last call, the script     *)
(* runs of the dashboard's sessions, one pipeline with its configuration,  *)
(* the run_for_table call in progress and the files written, a program     *)
(* that calls the pipeline table after table and the clock it reads, the   *)
(* scheduler with its table pipeline_runs, the dimension dim_customer with *)
(* the staging rows of the SCD step, and the threads that ingest at the    *)
(* same time on one manager.                                               *)
(*                                                                         *)
(* Confidence scores are floats in [0,1] in the source.  Here a score is   *)
(* an integer count of units of 1/(100*NRows), so that (1 - nulls/rows) *  *)
(* 0.20 is exact for every dataset of NRows rows: 1.0 is 100*NRows units.  *)
(***************************************************************************)
EXTENDS Integers, Sequences, FiniteSets, TLC

VARIABLES schema_registry, schema_change_log, schema_approval_queue, last,
          batch, decision, sessions, config, ingestion, files,
          caller, utcnow, pipeline_runs, scheduler, dim_customer, staging,
          threads

vars == <<schema_registry, schema_change_log, schema_approval_queue, last,
          batch, decision, sessions, config, ingestion, files,
          caller, utcnow, pipeline_runs, scheduler, dim_customer, staging,
          threads>>

managerVars == <<schema_registry, schema_change_log, schema_approval_queue, last,
                 batch, decision>>

dashboardVars == <<sessions>>

pipelineVars == <<config, ingestion, files>>

otherVars == <<caller, utcnow, pipeline_runs, scheduler, dim_customer, staging, threads>>

(* Bounds of the model. *)
NRows == 3
MaxBatch == 8

(* One unit of confidence is 1/(100*NRows); U(h) is h hundredths. *)
U(h) == h * NRows

(***************************************************************************)
(* Strings.  Python's substring test ("pattern in col"), str.lower,        *)
(* str.replace and str.isalnum look inside a string, so every column name  *)
(* and dtype name used by the model has its characters listed here.        *)
(***************************************************************************)
Text ==
       "transaction_id" :> <<"t", "r", "a", "n", "s", "a", "c", "t", "i", "o", "n", "_", "i", "d">>
    @@ "product_id" :> <<"p", "r", "o", "d", "u", "c", "t", "_", "i", "d">>
    @@ "store_id" :> <<"s", "t", "o", "r", "e", "_", "i", "d">>
    @@ "timestamp" :> <<"t", "i", "m", "e", "s", "t", "a", "m", "p">>
    @@ "quantity" :> <<"q", "u", "a", "n", "t", "i", "t", "y">>
    @@ "price" :> <<"p", "r", "i", "c", "e">>
    @@ "discount" :> <<"d", "i", "s", "c", "o", "u", "n", "t">>
    @@ "payment_method" :> <<"p", "a", "y", "m", "e", "n", "t", "_", "m", "e", "t", "h", "o", "d">>
    @@ "customer_id" :> <<"c", "u", "s", "t", "o", "m", "e", "r", "_", "i", "d">>
    @@ "random_0" :> <<"r", "a", "n", "d", "o", "m", "_", "0">>
    @@ "random_1" :> <<"r", "a", "n", "d", "o", "m", "_", "1">>
    @@ "random_2" :> <<"r", "a", "n", "d", "o", "m", "_", "2">>
    @@ "random_3" :> <<"r", "a", "n", "d", "o", "m", "_", "3">>
    @@ "random_4" :> <<"r", "a", "n", "d", "o", "m", "_", "4">>
    @@ "random_5" :> <<"r", "a", "n", "d", "o", "m", "_", "5">>
    @@ "id" :> <<"i", "d">>
    @@ "new_col" :> <<"n", "e", "w", "_", "c", "o", "l">>
    @@ "int64" :> <<"i", "n", "t", "6", "4">>
    @@ "int32" :> <<"i", "n", "t", "3", "2">>
    @@ "float64" :> <<"f", "l", "o", "a", "t", "6", "4">>
    @@ "object" :> <<"o", "b", "j", "e", "c", "t">>
    @@ "datetime64[ns]" :> <<"d", "a", "t", "e", "t", "i", "m", "e", "6", "4", "[", "n", "s", "]">>
    @@ "datetime64" :> <<"d", "a", "t", "e", "t", "i", "m", "e", "6", "4">>

Lower(ch) ==
    LET up == <<"A","B","C","D","E","F","G","H","I","J","K","L","M",
                "N","O","P","Q","R","S","T","U","V","W","X","Y","Z">>
        lo == <<"a","b","c","d","e","f","g","h","i","j","k","l","m",
                "n","o","p","q","r","s","t","u","v","w","x","y","z">>
    IN  IF \E i \in 1..26 : up[i] = ch
        THEN lo[CHOOSE i \in 1..26 : up[i] = ch]
        ELSE ch

str_lower(s) == [i \in 1..Len(s) |-> Lower(s[i])]

(* p in s, for Python strings *)
Contains(s, p) ==
    \E i \in 1..(Len(s) - Len(p) + 1) : SubSeq(s, i, i + Len(p) - 1) = p

(* s.replace('_', '') *)
RECURSIVE strip_underscore(_)
strip_underscore(s) ==
    IF s = <<>> THEN <<>>
    ELSE IF Head(s) = "_" THEN strip_underscore(Tail(s))
         ELSE <<Head(s)>> \o strip_underscore(Tail(s))

AlnumChars ==
    {"a","b","c","d","e","f","g","h","i","j","k","l","m","n","o","p","q","r",
     "s","t","u","v","w","x","y","z","A","B","C","D","E","F","G","H","I","J",
     "K","L","M","N","O","P","Q","R","S","T","U","V","W","X","Y","Z",
     "0","1","2","3","4","5","6","7","8","9"}

(* str.isalnum: non-empty and every character alphanumeric *)
isalnum(s) == s /= <<>> /\ \A i \in 1..Len(s) : s[i] \in AlnumChars

common_patterns ==
    { <<"i", "d">>,
      <<"n", "a", "m", "e">>,
      <<"d", "a", "t", "e">>,
      <<"t", "i", "m", "e">>,
      <<"a", "m", "o", "u", "n", "t">>,
      <<"p", "r", "i", "c", "e">>,
      <<"q", "u", "a", "n", "t", "i", "t", "y">>,
      <<"s", "t", "a", "t", "u", "s">>,
      <<"t", "y", "p", "e">>,
      <<"c", "o", "d", "e">>,
      <<"d", "e", "s", "c", "r", "i", "p", "t", "i", "o", "n">>,
      <<"f", "l", "a", "g">> }


(***************************************************************************)
(* Datasets.  A DataFrame is reduced to what the manager reads of it: its  *)
(* column set, its row count and, per column, the dtype name, the number   *)
(* of nulls, the number of distinct non-null values and whether            *)
(* pd.to_numeric accepts the column.                                       *)
(***************************************************************************)
Tables == {"transactions", "test_table"}

NoiseCols == {"random_0", "random_1", "random_2", "random_3", "random_4", "random_5"}

SmallCols == {"id", "new_col"}

Column(dtype, nulls, nunique, numeric) ==
    [dtype |-> dtype, nulls |-> nulls, nunique |-> nunique, numeric |-> numeric]

Frame(cols, rows, f) == [columns |-> cols, rows |-> rows, col |-> [c \in cols |-> f[c]]]

(* Columns of the frames built in test_schema_manager.py; discount is a     *)
(* registry column the test never fills, given here as whole numbers.       *)
TestColumn(c, quantity_dtype) ==
    CASE c = "store_id"       -> Column("int64", 0, NRows - 1, TRUE)
      [] c = "timestamp"      -> Column("datetime64[ns]", 0, NRows, TRUE)
      [] c = "quantity"       -> Column(quantity_dtype, 0, NRows, TRUE)
      [] c = "price"          -> Column("float64", 0, NRows, TRUE)
      [] c = "payment_method" -> Column("object", 0, NRows, FALSE)
      [] c \in NoiseCols      -> Column("object", 0, NRows, FALSE)
      [] OTHER                -> Column("int64", 0, NRows, TRUE)

NormalCols == {"transaction_id", "product_id", "store_id", "timestamp", "quantity", "price"}

TxFrame(drop, extra, quantity_dtype) ==
    LET cols == (NormalCols \ drop) \cup extra
    IN  Frame(cols, NRows, [c \in cols |-> TestColumn(c, quantity_dtype)])

normal_df == TxFrame({}, {}, "int64")
df2 == TxFrame({}, {"payment_method"}, "int64")
df3 == TxFrame({}, NoiseCols, "int64")

TxFrames ==
    { TxFrame({}, extra, "int64") :
        extra \in {{}, {"payment_method"}, {"random_0"}, NoiseCols, {"discount"}} }
    \cup { TxFrame({"store_id"}, extra, "int64") : extra \in {{}, {"random_0"}} }
    \cup { TxFrame({}, {}, "int32") }

(* Columns of the small frames: whole numbers, floats with a repeated      *)
(* value, and for new_col also text with one null                          *)
SmallProfiles(c) ==
    { Column("int64", 0, NRows, TRUE), Column("float64", 0, NRows - 1, TRUE) }
    \cup (IF c = "new_col" THEN { Column("object", 1, NRows - 1, FALSE) } ELSE {})

SmallFrames ==
    UNION { { Frame(cols, NRows, f) :
                f \in { g \in [cols -> UNION { SmallProfiles(c) : c \in cols }] :
                          \A c \in cols : g[c] \in SmallProfiles(c) } } :
            cols \in (SUBSET SmallCols) \ {{}} }

EmptyFrames ==
    { Frame(cols, 0, [c \in cols |-> Column("float64", 0, 0, TRUE)]) :
      cols \in (SUBSET SmallCols) \ {{}} }

(* The calls the model makes: the test's frames on the table they are      *)
(* meant for, the small frames on a table the registry does not know, and  *)
(* one one-column frame on "transactions" as well.                         *)
Calls ==
    ({"transactions"} \X TxFrames)
    \cup ({"test_table"} \X (SmallFrames \cup EmptyFrames \cup {normal_df}))
    \cup ({"transactions"} \X { Frame({"id"}, NRows, [c \in {"id"} |-> Column("int64", 0, NRows, TRUE)]) })

(* detect_schema_changes is also called on its own (verify_runtime.py) *)
DetectCalls ==
    ({"test_table"} \X { f \in SmallFrames : f.columns = SmallCols /\ f.col["id"].dtype = "int64" })
    \cup {<<"transactions", normal_df>>}

(***************************************************************************)
(* Helpers on sequences and sets.                                          *)
(***************************************************************************)
Range(s) == { s[i] : i \in 1..Len(s) }

Perms(S) ==
    { s \in [1..Cardinality(S) -> S] : \A i, j \in 1..Cardinality(S) : s[i] = s[j] => i = j }

RECURSIVE SomeOrder(_)
SomeOrder(S) ==
    IF S = {} THEN <<>>
    ELSE LET x == CHOOSE y \in S : TRUE IN <<x>> \o SomeOrder(S \ {x})

(* dict[key] = value *)
Put(f, k, v) == [x \in (DOMAIN f) \cup {k} |-> IF x = k THEN v ELSE f[x]]

EmptyDict == [x \in {} |-> 0]

(***************************************************************************)
(* AdaptiveSchemaManager                                                   *)
(***************************************************************************)
confidence_threshold == U(75)

InitialRegistry ==
    [t \in {"transactions"} |->
        [version  |-> 1,
         required |-> <<"transaction_id", "product_id", "store_id", "timestamp",
                        "quantity", "price">>,
         optional |-> <<"discount", "payment_method", "customer_id">>,
         types    |-> [c \in {"transaction_id", "product_id", "store_id", "quantity",
                              "price", "timestamp", "discount", "customer_id"} |->
                         CASE c \in {"price", "discount"} -> "float64"
                           [] c = "timestamp" -> "datetime64"
                           [] OTHER -> "int64"]]]

(* Variant: an unknown table starts from the entry of 'transactions' *)
DefaultSchema_as_transactions == InitialRegistry["transactions"]

DefaultSchema ==
    [version |-> 1, required |-> <<>>, optional |-> <<>>, types |-> EmptyDict]

(* Factor 1 of _calculate_column_confidence: the naming convention *)
NamingScore ==
    [col \in DOMAIN Text |->
        IF \E p \in common_patterns : Contains(str_lower(Text[col]), p) THEN U(50)
        ELSE IF isalnum(strip_underscore(Text[col])) THEN U(30)
        ELSE 0]

Min(a, b) == IF a <= b THEN a ELSE b

calculate_column_confidence(df, col) ==
    IF df.rows = 0 THEN 0
    ELSE
      LET c == df.col[col]
          naming == NamingScore[col]
          (* (1 - null_ratio) * 0.20, in units of 1/(100*NRows) *)
          completeness == ((df.rows - c.nulls) * 20 * NRows) \div df.rows
          consistency ==
              IF c.dtype = "object" THEN (IF c.numeric THEN U(15) ELSE U(5))
              ELSE U(15)
          (* 0.01 < nunique/rows < 0.99 *)
          distribution ==
              IF df.rows < 100 * c.nunique /\ 100 * c.nunique < 99 * df.rows
              THEN U(15) ELSE U(5)
      IN  Min(naming + completeness + consistency + distribution, U(100))

simple_type ==
    [ty \in DOMAIN Text |-> IF Contains(Text[ty], <<"i", "n", "t">>) THEN "int64" ELSE ty]

calculate_type_change_confidence(old_type, new_type) ==
    LET transition == <<simple_type[old_type], simple_type[new_type]>>
    IN  CASE transition = <<"int64", "float64">>  -> U(90)
          [] transition = <<"float64", "int64">>  -> U(50)
          [] transition = <<"object", "datetime64">> -> U(80)
          [] transition = <<"int64", "object">>   -> U(30)
          [] OTHER -> U(20)

NewColumn(df, col) ==
    [type |-> "new_column", column |-> col,
     confidence |-> calculate_column_confidence(df, col),
     data_type |-> df.col[col].dtype]

TypeChange(df, col, expected_type) ==
    [type |-> "type_change", column |-> col,
     confidence |-> calculate_type_change_confidence(expected_type, df.col[col].dtype),
     old_type |-> expected_type, new_type |-> df.col[col].dtype]

(***************************************************************************)
(* detect_schema_changes.  An unknown table first gets the default entry.  *)
(* new_columns and the type changes are built by iterating Python sets, so *)
(* they are sets here; Iterations gives the lists the loops can build.     *)
(***************************************************************************)
(* Variant: new columns taken against the required columns only *)
detect_schema_changes_required_only(reg, table_name, df) ==
    LET reg1 == IF table_name \in DOMAIN reg THEN reg
                ELSE Put(reg, table_name, DefaultSchema)
        current_schema == reg1[table_name]
        incoming_columns == df.columns
        expected_columns == Range(current_schema.required \o current_schema.optional)
        new_columns == incoming_columns \ Range(current_schema.required)
        missing_columns == Range(current_schema.required) \ incoming_columns
        typed == { c \in incoming_columns \cap expected_columns :
                     /\ c \in DOMAIN current_schema.types
                     /\ current_schema.types[c] /= df.col[c].dtype }
    IN  [registry |-> reg1,
         new_columns |-> { NewColumn(df, c) : c \in new_columns },
         type_changes |-> { TypeChange(df, c, current_schema.types[c]) : c \in typed },
         missing |-> missing_columns]

detect_schema_changes(reg, table_name, df) ==
    LET reg1 == IF table_name \in DOMAIN reg THEN reg
                ELSE Put(reg, table_name, DefaultSchema)
        current_schema == reg1[table_name]
        incoming_columns == df.columns
        expected_columns == Range(current_schema.required \o current_schema.optional)
        new_columns == incoming_columns \ expected_columns
        missing_columns == Range(current_schema.required) \ incoming_columns
        typed == { c \in incoming_columns \cap expected_columns :
                     /\ c \in DOMAIN current_schema.types
                     /\ current_schema.types[c] /= df.col[c].dtype }
    IN  [registry |-> reg1,
         new_columns |-> { NewColumn(df, c) : c \in new_columns },
         type_changes |-> { TypeChange(df, c, current_schema.types[c]) : c \in typed },
         missing |-> missing_columns]

(* The order of a set's iteration is not fixed by the language.  It shows  *)
(* in the registry only when changes are applied, which needs at most      *)
(* MaxAuto of them: every order is taken up to that size, one beyond it.   *)
MaxAuto == 3

Iterations(det) ==
    IF Cardinality(det.new_columns) + Cardinality(det.type_changes) <= MaxAuto
    THEN { n \o t : n \in Perms(det.new_columns), t \in Perms(det.type_changes) }
    ELSE { SomeOrder(det.new_columns) \o SomeOrder(det.type_changes) }

IsHigh(c) == c.confidence >= confidence_threshold
IsLow(c) == c.confidence < confidence_threshold

(* The dicts apply_noise_reduction_strategy returns *)
QuarantineAll(changes, low_confidence) ==
    [action |-> "quarantine_all",
     reason |-> [text |-> "low-confidence changes detected simultaneously",
                 low |-> Len(low_confidence)],
     changes |-> changes,
     recommendation |-> "Review source data quality"]

BatchApproval(changes, high_confidence, low_confidence) ==
    [action |-> "batch_approval_required",
     reason |-> [text |-> "columns changed, with low confidence",
                 changed |-> Len(changes), low |-> Len(low_confidence)],
     high_confidence |-> high_confidence,
     low_confidence |-> low_confidence,
     recommendation |-> "Review changes as a group before accepting"]

AutoApprove(changes, why) ==
    [action |-> "auto_approve", reason |-> [text |-> why], changes |-> changes]

ManualReview(changes) ==
    [action |-> "manual_review",
     reason |-> [text |-> "Changes do not match auto-approval criteria"],
     changes |-> changes]

(* Variant: the mixed-batch test placed before the mass-low test *)
apply_noise_reduction_strategy_mixed_first(changes) ==
    LET high_confidence == SelectSeq(changes, IsHigh)
        low_confidence == SelectSeq(changes, IsLow)
    IN  IF changes = <<>> THEN [action |-> "none", changes |-> <<>>]
        ELSE IF Len(changes) > 1 /\ Len(low_confidence) > 0 THEN
            BatchApproval(changes, high_confidence, low_confidence)
        ELSE IF Len(low_confidence) > 5 THEN QuarantineAll(changes, low_confidence)
        ELSE IF Len(changes) = 1 /\ changes[1].confidence >= confidence_threshold THEN
            AutoApprove(changes, "Single high-confidence change")
        ELSE IF Len(high_confidence) = Len(changes) /\ Len(changes) <= 3 THEN
            AutoApprove(changes, "All changes have high confidence")
        ELSE ManualReview(changes)

(* Variant: all-high batches accepted only below 3 changes *)
apply_noise_reduction_strategy_below_3(changes) ==
    LET high_confidence == SelectSeq(changes, IsHigh)
        low_confidence == SelectSeq(changes, IsLow)
    IN  IF changes = <<>> THEN [action |-> "none", changes |-> <<>>]
        ELSE IF Len(low_confidence) > 5 THEN QuarantineAll(changes, low_confidence)
        ELSE IF Len(changes) > 1 /\ Len(low_confidence) > 0 THEN
            BatchApproval(changes, high_confidence, low_confidence)
        ELSE IF Len(changes) = 1 /\ changes[1].confidence >= confidence_threshold THEN
            AutoApprove(changes, "Single high-confidence change")
        ELSE IF Len(high_confidence) = Len(changes) /\ Len(changes) < 3 THEN
            AutoApprove(changes, "All changes have high confidence")
        ELSE ManualReview(changes)

(* Variant: the mass test counts the high-confidence list *)
apply_noise_reduction_strategy_counts_high(changes) ==
    LET high_confidence == SelectSeq(changes, IsHigh)
        low_confidence == SelectSeq(changes, IsLow)
    IN  IF changes = <<>> THEN [action |-> "none", changes |-> <<>>]
        ELSE IF Len(high_confidence) > 5 THEN QuarantineAll(changes, low_confidence)
        ELSE IF Len(changes) > 1 /\ Len(low_confidence) > 0 THEN
            BatchApproval(changes, high_confidence, low_confidence)
        ELSE IF Len(changes) = 1 /\ changes[1].confidence >= confidence_threshold THEN
            AutoApprove(changes, "Single high-confidence change")
        ELSE IF Len(high_confidence) = Len(changes) /\ Len(changes) <= 3 THEN
            AutoApprove(changes, "All changes have high confidence")
        ELSE ManualReview(changes)

apply_noise_reduction_strategy(changes) ==
    LET high_confidence == SelectSeq(changes, IsHigh)
        low_confidence == SelectSeq(changes, IsLow)
    IN  IF changes = <<>> THEN [action |-> "none", changes |-> <<>>]
        (* Scenario 1: mass low-confidence changes *)
        ELSE IF Len(low_confidence) > 5 THEN QuarantineAll(changes, low_confidence)
        (* Scenario 2: mixed confidence batch *)
        ELSE IF Len(changes) > 1 /\ Len(low_confidence) > 0 THEN
            BatchApproval(changes, high_confidence, low_confidence)
        (* Scenario 3: single high-confidence change *)
        ELSE IF Len(changes) = 1 /\ changes[1].confidence >= confidence_threshold THEN
            AutoApprove(changes, "Single high-confidence change")
        (* Scenario 4: multiple high-confidence changes *)
        ELSE IF Len(high_confidence) = Len(changes) /\ Len(changes) <= 3 THEN
            AutoApprove(changes, "All changes have high confidence")
        ELSE ManualReview(changes)

(***************************************************************************)
(* The DuckDB tables.  Both are declared with an INTEGER PRIMARY KEY, and  *)
(* a primary key column is NOT NULL: an INSERT whose key is NULL raises a  *)
(* constraint error, which the caller's except clause swallows.            *)
(***************************************************************************)
NULL == "NULL"

db_insert(rows, row, key) ==
    IF row[key] = NULL THEN rows ELSE Append(rows, row)

RECURSIVE db_insert_all(_, _, _)
db_insert_all(rows, new_rows, key) ==
    IF new_rows = <<>> THEN rows
    ELSE db_insert_all(db_insert(rows, Head(new_rows), key), Tail(new_rows), key)

OldType(change) == IF "old_type" \in DOMAIN change THEN change.old_type ELSE ""

NewType(change) ==
    IF "new_type" \in DOMAIN change THEN change.new_type
    ELSE IF "data_type" \in DOMAIN change THEN change.data_type ELSE ""

(* The INSERT statements log_pending_change executes, in order *)
log_pending_change(table_name, dec) ==
    IF "changes" \notin DOMAIN dec THEN <<>>
    ELSE [i \in 1..Len(dec.changes) |->
            [change_id |-> NULL,
             table_name |-> table_name,
             change_type |-> dec.changes[i].type,
             column_name |-> dec.changes[i].column,
             old_value |-> OldType(dec.changes[i]),
             new_value |-> NewType(dec.changes[i]),
             confidence_score |-> dec.changes[i].confidence,
             status |-> dec.action,
             approved_at |-> NULL,
             approved_by |-> NULL,
             affected_rows |-> 0]]

(* The INSERT statement _create_approval_request executes *)
create_approval_request(table_name, dec) ==
    << [queue_id |-> NULL,
        table_name |-> table_name,
        action |-> dec.action,
        reason |-> dec.reason,
        decision_json |-> dec,
        status |-> "pending"] >>

RECURSIVE update_registry_entry(_, _)
update_registry_entry(entry, changes) ==
    IF changes = <<>> THEN entry
    ELSE LET change == Head(changes)
             next ==
               IF change.type = "new_column" THEN
                   [entry EXCEPT !.optional = Append(@, change.column),
                                 !.types = Put(@, change.column, change.data_type)]
               ELSE IF change.type = "type_change" THEN
                   [entry EXCEPT !.types = Put(@, change.column, change.new_type)]
               ELSE entry
         IN  update_registry_entry(next, Tail(changes))

(* Variant: a type change leaves the declared type as it was *)
RECURSIVE update_registry_entry_keeps_type(_, _)
update_registry_entry_keeps_type(entry, changes) ==
    IF changes = <<>> THEN entry
    ELSE LET change == Head(changes)
             next ==
               IF change.type = "new_column" THEN
                   [entry EXCEPT !.optional = Append(@, change.column),
                                 !.types = Put(@, change.column, change.data_type)]
               ELSE entry
         IN  update_registry_entry_keeps_type(next, Tail(changes))

update_registry_keeps_type(reg, table_name, changes) ==
    LET entry == update_registry_entry_keeps_type(reg[table_name], changes)
    IN  [reg EXCEPT ![table_name] = [entry EXCEPT !.version = @ + 1]]

update_registry(reg, table_name, changes) ==
    LET entry == update_registry_entry(reg[table_name], changes)
    IN  [reg EXCEPT ![table_name] = [entry EXCEPT !.version = @ + 1]]

(***************************************************************************)
(* process_ingestion_with_adaptive_schema, with `changes` the list that    *)
(* detection built.  The value holds the registry and the tables after the *)
(* call, the INSERT statements the call executed and the dict it returns.  *)
(***************************************************************************)
NoDecision == [action |-> "not_decided"]

(* Variant: the registry is updated before the action is looked at *)
handle_decision_updates_first(reg, log, queue, table_name, changes) ==
    LET dec == apply_noise_reduction_strategy(changes)
        log_inserts == log_pending_change(table_name, dec)
        log1 == db_insert_all(log, log_inserts, "change_id")
        queue_inserts == create_approval_request(table_name, dec)
    IN  IF dec.action = "auto_approve" THEN
            [registry |-> update_registry(reg, table_name, dec.changes),
             log |-> log1, queue |-> queue,
             log_inserts |-> log_inserts, queue_inserts |-> <<>>,
             decision |-> dec,
             result |-> [status |-> "approved", action |-> "process",
                         changes |-> changes]]
        ELSE IF dec.action \in {"batch_approval_required", "manual_review", "quarantine_all"} THEN
            [registry |-> update_registry(reg, table_name, changes),
             log |-> log1,
             queue |-> db_insert_all(queue, queue_inserts, "queue_id"),
             log_inserts |-> log_inserts, queue_inserts |-> queue_inserts,
             decision |-> dec,
             result |-> [status |-> "pending_approval", action |-> "hold",
                         decision |-> dec]]
        ELSE
            [registry |-> reg, log |-> log1, queue |-> queue,
             log_inserts |-> log_inserts, queue_inserts |-> <<>>,
             decision |-> dec,
             result |-> [status |-> "approved", action |-> "process",
                         changes |-> <<>>]]

(* Variant: the error of a failed INSERT is not caught and ends the call *)
handle_decision_write_raises(reg, log, queue, table_name, changes) ==
    LET dec == apply_noise_reduction_strategy(changes)
        log_inserts == log_pending_change(table_name, dec)
        log1 == db_insert_all(log, log_inserts, "change_id")
        queue_inserts == create_approval_request(table_name, dec)
        queue1 == db_insert_all(queue, queue_inserts, "queue_id")
        held == dec.action \in {"batch_approval_required", "manual_review", "quarantine_all"}
        raised == [registry |-> reg, log |-> log1, queue |-> queue,
                   log_inserts |-> log_inserts, queue_inserts |-> <<>>,
                   decision |-> dec,
                   result |-> [status |-> "error", action |-> "raise"]]
    IN  IF Len(log1) < Len(log) + Len(log_inserts) THEN raised
        ELSE IF held /\ Len(queue1) < Len(queue) + Len(queue_inserts) THEN
            [raised EXCEPT !.queue_inserts = queue_inserts]
        ELSE IF dec.action = "auto_approve" THEN
            [registry |-> update_registry(reg, table_name, dec.changes),
             log |-> log1, queue |-> queue,
             log_inserts |-> log_inserts, queue_inserts |-> <<>>,
             decision |-> dec,
             result |-> [status |-> "approved", action |-> "process",
                         changes |-> changes]]
        ELSE IF held THEN
            [registry |-> reg, log |-> log1, queue |-> queue1,
             log_inserts |-> log_inserts, queue_inserts |-> queue_inserts,
             decision |-> dec,
             result |-> [status |-> "pending_approval", action |-> "hold",
                         decision |-> dec]]
        ELSE
            [registry |-> reg, log |-> log1, queue |-> queue,
             log_inserts |-> log_inserts, queue_inserts |-> <<>>,
             decision |-> dec,
             result |-> [status |-> "approved", action |-> "process",
                         changes |-> <<>>]]

(* Lines 325-341: decide, log, then apply or hold *)
handle_decision(reg, log, queue, table_name, changes) ==
    LET dec == apply_noise_reduction_strategy(changes)
        log_inserts == log_pending_change(table_name, dec)
        log1 == db_insert_all(log, log_inserts, "change_id")
        queue_inserts == create_approval_request(table_name, dec)
    IN  IF dec.action = "auto_approve" THEN
            [registry |-> update_registry(reg, table_name, dec.changes),
             log |-> log1, queue |-> queue,
             log_inserts |-> log_inserts, queue_inserts |-> <<>>,
             decision |-> dec,
             result |-> [status |-> "approved", action |-> "process",
                         changes |-> changes]]
        ELSE IF dec.action \in {"batch_approval_required", "manual_review", "quarantine_all"} THEN
            [registry |-> reg,
             log |-> log1,
             queue |-> db_insert_all(queue, queue_inserts, "queue_id"),
             log_inserts |-> log_inserts, queue_inserts |-> queue_inserts,
             decision |-> dec,
             result |-> [status |-> "pending_approval", action |-> "hold",
                         decision |-> dec]]
        ELSE
            [registry |-> reg, log |-> log1, queue |-> queue,
             log_inserts |-> log_inserts, queue_inserts |-> <<>>,
             decision |-> dec,
             result |-> [status |-> "approved", action |-> "process",
                         changes |-> <<>>]]

(* Variant: the test for missing required columns is left out *)
process_ingestion_no_missing_check(reg, log, queue, table_name, df, changes) ==
    LET det == detect_schema_changes(reg, table_name, df)
        quiet == [registry |-> det.registry, log |-> log, queue |-> queue,
                  log_inserts |-> <<>>, queue_inserts |-> <<>>,
                  decision |-> NoDecision]
    IN  IF changes = <<>> THEN
            quiet @@ [result |-> [status |-> "approved",
                                  reason |-> [text |-> "Schema matches registry"],
                                  action |-> "process"]]
        ELSE handle_decision(det.registry, log, queue, table_name, changes)

process_ingestion_with_adaptive_schema(reg, log, queue, table_name, df, changes) ==
    LET det == detect_schema_changes(reg, table_name, df)
        quiet == [registry |-> det.registry, log |-> log, queue |-> queue,
                  log_inserts |-> <<>>, queue_inserts |-> <<>>,
                  decision |-> NoDecision]
    IN  IF det.missing /= {} THEN
            quiet @@ [result |-> [status |-> "rejected",
                                  reason |-> [text |-> "Missing required columns",
                                              columns |-> det.missing],
                                  action |-> "quarantine"]]
        ELSE IF changes = <<>> THEN
            quiet @@ [result |-> [status |-> "approved",
                                  reason |-> [text |-> "Schema matches registry"],
                                  action |-> "process"]]
        ELSE handle_decision(det.registry, log, queue, table_name, changes)

(***************************************************************************)
(* The dashboard's sessions and the pipeline, as they are before any       *)
(* script run and any run_for_table call.                                  *)
(***************************************************************************)
NSessions == 2

Sessions == 1..NSessions

NoSessions == [s \in Sessions |-> [pc |-> "idle", pending |-> <<>>]]

(* The dataclass defaults; seconds are whole numbers here *)
IngestionConfig == [max_retries |-> 3, base_backoff_seconds |-> 1]

NotRunning == [pc |-> "idle"]

(* No program that calls the pipeline, no scheduler, no warehouse          *)
(* dimension and no ingestion thread has started                           *)
CallerIdle ==
    /\ caller = [pc |-> "main", tables |-> <<>>, next |-> 1, error |-> "None",
                 call |-> [table_name |-> "", reads |-> 0]]
    /\ utcnow = 0

SchedulerIdle == pipeline_runs = <<>> /\ scheduler = [pc |-> "off"]

ScdIdle == dim_customer = <<>> /\ staging = <<>>

OthersIdle == CallerIdle /\ SchedulerIdle /\ ScdIdle /\ threads = <<>>

(***************************************************************************)
(* The state machine of one manager.  Init is the state after __init__;    *)
(* `last` records the last call: its arguments, the registry before it,    *)
(* what detection found, and what the call returned and wrote.             *)
(***************************************************************************)
Init ==
    /\ schema_registry = EmptyDict
    /\ schema_change_log = <<>>
    /\ schema_approval_queue = <<>>
    /\ last = [op |-> "__init__"]
    /\ batch = <<>>
    /\ decision = NoDecision
    /\ sessions = NoSessions
    /\ config = IngestionConfig
    /\ ingestion = NotRunning
    /\ files = <<>>
    /\ OthersIdle

initialize_registry ==
    /\ schema_registry' = InitialRegistry
    /\ last' = [op |-> "initialize_registry", before |-> schema_registry]
    /\ UNCHANGED <<schema_change_log, schema_approval_queue, batch, decision>>
    /\ UNCHANGED <<dashboardVars, pipelineVars, otherVars>>

DetectSchemaChanges ==
    \E call \in DetectCalls :
      LET table_name == call[1]
          df == call[2]
          det == detect_schema_changes(schema_registry, table_name, df)
      IN  \E changes \in Iterations(det) :
            /\ schema_registry' = det.registry
            /\ last' = [op |-> "detect_schema_changes", table |-> table_name, df |-> df,
                        before |-> schema_registry,
                        changes |-> changes, missing |-> det.missing]
            /\ UNCHANGED <<schema_change_log, schema_approval_queue, batch, decision>>
            /\ UNCHANGED <<dashboardVars, pipelineVars, otherVars>>

ProcessIngestion ==
    \E call \in Calls :
      LET table_name == call[1]
          df == call[2]
          det == detect_schema_changes(schema_registry, table_name, df)
      IN  \E changes \in Iterations(det) :
            LET out == process_ingestion_with_adaptive_schema(
                           schema_registry, schema_change_log, schema_approval_queue,
                           table_name, df, changes)
            IN  /\ schema_registry' = out.registry
                /\ schema_change_log' = out.log
                /\ schema_approval_queue' = out.queue
                /\ last' = [op |-> "process_ingestion_with_adaptive_schema",
                            table |-> table_name, df |-> df,
                            before |-> schema_registry,
                            changes |-> changes, missing |-> det.missing,
                            decision |-> out.decision, result |-> out.result,
                            log_inserts |-> out.log_inserts,
                            queue_inserts |-> out.queue_inserts]
                /\ UNCHANGED <<batch, decision>>
                /\ UNCHANGED <<dashboardVars, pipelineVars, otherVars>>

Next == initialize_registry \/ DetectSchemaChanges \/ ProcessIngestion

Spec == Init /\ [][Next]_vars

(***************************************************************************)
(* The decision policy on its own: a batch of candidates is drawn, then    *)
(* apply_noise_reduction_strategy is applied to it.                        *)
(***************************************************************************)
ConfLevels == {U(75) - 1, U(75), U(90)}

InitPolicy ==
    /\ schema_registry = EmptyDict
    /\ schema_change_log = <<>>
    /\ schema_approval_queue = <<>>
    /\ last = [op |-> "__init__"]
    /\ batch = <<>>
    /\ decision = NoDecision
    /\ sessions = NoSessions
    /\ config = IngestionConfig
    /\ ingestion = NotRunning
    /\ files = <<>>
    /\ OthersIdle

DrawCandidate ==
    /\ decision = NoDecision
    /\ Len(batch) < MaxBatch
    /\ \E c \in ConfLevels :
         batch' = Append(batch, [type |-> "new_column", column |-> Len(batch) + 1,
                                 confidence |-> c])
    /\ UNCHANGED <<schema_registry, schema_change_log, schema_approval_queue, last, decision>>
    /\ UNCHANGED <<dashboardVars, pipelineVars, otherVars>>

ApplyNoiseReduction ==
    /\ decision = NoDecision
    /\ decision' = apply_noise_reduction_strategy(batch)
    /\ UNCHANGED <<schema_registry, schema_change_log, schema_approval_queue, last, batch>>
    /\ UNCHANGED <<dashboardVars, pipelineVars, otherVars>>

NextPolicy == DrawCandidate \/ ApplyNoiseReduction

SpecPolicy == InitPolicy /\ [][NextPolicy]_vars

(***************************************************************************)
(* The schema governance dashboard.  Every script run of a session loads   *)
(* the pending requests, renders one Approve and one Reject button per     *)
(* loaded row, and executes the handler of the button that was clicked;    *)
(* st.rerun() then ends the run.  The runs of different sessions           *)
(* interleave between the SELECT and the handler.                          *)
(*                                                                         *)
(* The database is an input of the dashboard: it is taken to hold the rows *)
(* of the manager's INSERT statements for two held datasets, stored under  *)
(* the integer keys that the two tables declare.                           *)
(***************************************************************************)
WithKeys(rows, key) == [i \in 1..Len(rows) |-> [rows[i] EXCEPT ![key] = i]]

(* What the manager executes and returns for one dataset *)
Escalation(reg, table_name, df) ==
    LET det == detect_schema_changes(reg, table_name, df)
    IN  process_ingestion_with_adaptive_schema(
            reg, <<>>, <<>>, table_name, df,
            SomeOrder(det.new_columns) \o SomeOrder(det.type_changes))

Escalations ==
    { Escalation(InitialRegistry, "transactions", normal_df),
      Escalation(InitialRegistry, "transactions", TxFrame({}, {}, "int32")),
      Escalation(EmptyDict, "test_table",
                 Frame({"new_col"}, NRows,
                       [c \in {"new_col"} |-> Column("object", 1, NRows - 1, FALSE)])) }

Databases ==
    { [queue |-> WithKeys(e1.queue_inserts \o e2.queue_inserts, "queue_id"),
       log |-> WithKeys(e1.log_inserts \o e2.log_inserts, "change_id")] :
      e1 \in Escalations, e2 \in Escalations }

InitDashboard ==
    /\ schema_registry = EmptyDict
    /\ \E db \in Databases :
         /\ schema_approval_queue = db.queue
         /\ schema_change_log = db.log
    /\ last = [op |-> "connect"]
    /\ batch = <<>>
    /\ decision = NoDecision
    /\ sessions = NoSessions
    /\ config = IngestionConfig
    /\ ingestion = NotRunning
    /\ files = <<>>
    /\ OthersIdle

IsPending(row) == row.status = "pending"

Reverse(rows) == [i \in 1..Len(rows) |-> rows[Len(rows) + 1 - i]]

(* SELECT ... WHERE status = 'pending' ORDER BY created_at DESC *)
select_pending(queue) == Reverse(SelectSeq(queue, IsPending))

(* UPDATE schema_approval_queue SET status = ? WHERE queue_id = ? *)
update_queue(queue, queue_id, outcome) ==
    [i \in 1..Len(queue) |->
        IF queue[i].queue_id = queue_id
        THEN [queue[i] EXCEPT !.status = outcome]
        ELSE queue[i]]

(* UPDATE schema_change_log SET status = ?, approved_at = CURRENT_TIMESTAMP, *)
(* approved_by = 'admin' WHERE status = ?                                    *)
update_log(log, action, outcome) ==
    [i \in 1..Len(log) |->
        IF log[i].status = action
        THEN [log[i] EXCEPT !.status = outcome,
                            !.approved_at = "CURRENT_TIMESTAMP",
                            !.approved_by = "admin"]
        ELSE log[i]]

LoadPending(s) ==
    /\ sessions[s].pc = "idle"
    /\ sessions' = [sessions EXCEPT ![s] =
                      [pc |-> "rendered",
                       pending |-> select_pending(schema_approval_queue)]]
    /\ UNCHANGED <<schema_registry, schema_change_log, schema_approval_queue, last,
                   batch, decision, pipelineVars, otherVars>>

(* The handler of a button of a loaded row, then st.rerun() *)
Click(s, op, outcome) ==
    /\ sessions[s].pc = "rendered"
    /\ \E i \in 1..Len(sessions[s].pending) :
         LET row == sessions[s].pending[i]
         IN  /\ schema_approval_queue' =
                    update_queue(schema_approval_queue, row.queue_id, outcome)
             /\ schema_change_log' = update_log(schema_change_log, row.action, outcome)
             /\ last' = [op |-> op, row |-> row]
    /\ sessions' = [sessions EXCEPT ![s] = [pc |-> "idle", pending |-> <<>>]]
    /\ UNCHANGED <<schema_registry, batch, decision, pipelineVars, otherVars>>

Approve(s) == Click(s, "Approve", "approved")

Reject(s) == Click(s, "Reject", "rejected")

(* The run reaches the end of the script: no button was clicked *)
EndRun(s) ==
    /\ sessions[s].pc = "rendered"
    /\ sessions' = [sessions EXCEPT ![s] = [pc |-> "idle", pending |-> <<>>]]
    /\ UNCHANGED <<schema_registry, schema_change_log, schema_approval_queue, last,
                   batch, decision, pipelineVars, otherVars>>

NextDashboard ==
    \E s \in Sessions : LoadPending(s) \/ Approve(s) \/ Reject(s) \/ EndRun(s)

SpecDashboard == InitDashboard /\ [][NextDashboard]_vars

(***************************************************************************)
(* The batch ingestion pipeline (batch_pipeline.py).  A DataFrame is here  *)
(* its column set and its rows in index order; a cell either holds a value *)
(* or is NaN.  pd.read_csv names every column, so a frame has at least one *)
(* column.                                                                 *)
(***************************************************************************)
MaxRetries == 4
MaxRows == 2

NaN == "NaN"

PipelineCols == {"customer_id", "email", "name"}

(* sorted() on the column names *)
ColumnOrder == <<"customer_id", "email", "name">>

sorted(cols) ==
    LET In(c) == c \in cols
    IN  SelectSeq(ColumnOrder, In)

TableSchema(name, required_columns, optional_columns) ==
    [name |-> name, required_columns |-> required_columns,
     optional_columns |-> optional_columns]

(* A registry as the constructor takes it.  default_schema_registry lists  *)
(* no required column for any table and asks for the lists to be revised:  *)
(* "products" is as it stands there, the other two have required columns.  *)
registry_schemas ==
    [t \in {"customers", "products", "stores"} |->
        CASE t = "customers" -> TableSchema(t, <<"customer_id", "email">>, <<"name">>)
          [] t = "products"  -> TableSchema(t, <<>>, <<>>)
          [] t = "stores"    -> TableSchema(t, <<"name", "email", "customer_id">>, <<>>)]

Configs ==
    { [max_retries |-> m, base_backoff_seconds |-> b] : m \in 0..MaxRetries, b \in {1, 3} }

DataFrame(cols, cells) ==
    [columns |-> cols,
     rows |-> [i \in 1..Len(cells) |-> [index |-> i - 1, cells |-> cells[i]]]]

Datasets ==
    UNION { UNION { { DataFrame(cols, cells) : cells \in [1..n -> [cols -> {"x", NaN}]] } :
                    n \in 0..MaxRows } :
            cols \in (SUBSET PipelineCols) \ {{}} }

NoFrame == [columns |-> {}, rows |-> <<>>]

isna(v) == v = NaN

(* Variant: an absent required column leaves the mask as it was *)
RECURSIVE quarantine_mask_keeps_rows(_, _, _)
quarantine_mask_keeps_rows(df, cols, mask) ==
    IF cols = <<>> THEN mask
    ELSE LET col == Head(cols)
             next == IF col \notin df.columns
                     THEN mask
                     ELSE [i \in 1..Len(df.rows) |->
                              mask[i] \/ isna(df.rows[i].cells[col])]
         IN  quarantine_mask_keeps_rows(df, Tail(cols), next)

(* Lines 163-185: the mask after the loop over sorted(required) *)
RECURSIVE quarantine_mask(_, _, _)
quarantine_mask(df, cols, mask) ==
    IF cols = <<>> THEN mask
    ELSE LET col == Head(cols)
             next == IF col \notin df.columns
                     THEN [i \in 1..Len(df.rows) |-> TRUE]
                     ELSE [i \in 1..Len(df.rows) |->
                              mask[i] \/ isna(df.rows[i].cells[col])]
         IN  quarantine_mask(df, Tail(cols), next)

(* Lines 197-203: the reasons of one row, in the order they are appended *)
RECURSIVE row_reasons(_, _, _)
row_reasons(df, row, cols) ==
    IF cols = <<>> THEN <<>>
    ELSE LET col == Head(cols)
             here == IF col \notin df.columns
                     THEN << [code |-> "missing_required_column", column |-> col] >>
                     ELSE IF isna(row.cells[col])
                     THEN << [code |-> "missing_required_value", column |-> col] >>
                     ELSE <<>>
         IN  here \o row_reasons(df, row, Tail(cols))

IsColumnReason(r) == r.code = "missing_required_column"

IsValueReason(r) == r.code = "missing_required_value"

(* Line 204: ";".join(sorted(set(row_reasons))) or "unknown_reason".  The  *)
(* joined text is kept as the list of its parts; the codes of a missing    *)
(* column sort before the codes of a missing value, each by column name.   *)
join_reasons(reasons) ==
    IF reasons = <<>> THEN << [code |-> "unknown_reason", column |-> ""] >>
    ELSE SelectSeq(reasons, IsColumnReason) \o SelectSeq(reasons, IsValueReason)

(* Variant: the reasons of a row end at the first one found *)
validate_and_split_first_reason(df, schema) ==
    LET required == sorted(Range(schema.required_columns))
        mask == quarantine_mask(df, required, [i \in 1..Len(df.rows) |-> FALSE])
        Masked(row) == mask[row.index + 1]
        Unmasked(row) == ~mask[row.index + 1]
        quarantined == SelectSeq(df.rows, Masked)
    IN  [valid_df |-> [columns |-> df.columns, rows |-> SelectSeq(df.rows, Unmasked)],
         quarantine_df |->
            IF quarantined = <<>> THEN [columns |-> df.columns, rows |-> <<>>]
            ELSE [columns |-> df.columns \cup {"quarantine_reason"},
                  rows |-> [i \in 1..Len(quarantined) |->
                              [index |-> quarantined[i].index,
                               cells |-> quarantined[i].cells,
                               quarantine_reason |->
                                  join_reasons(SubSeq(row_reasons(df, quarantined[i], required),
                                                      1, 1))]]]]

validate_and_split(df, schema) ==
    LET required == sorted(Range(schema.required_columns))
        mask == quarantine_mask(df, required, [i \in 1..Len(df.rows) |-> FALSE])
        Masked(row) == mask[row.index + 1]
        Unmasked(row) == ~mask[row.index + 1]
        quarantined == SelectSeq(df.rows, Masked)
    IN  [valid_df |-> [columns |-> df.columns, rows |-> SelectSeq(df.rows, Unmasked)],
         quarantine_df |->
            IF quarantined = <<>> THEN [columns |-> df.columns, rows |-> <<>>]
            ELSE [columns |-> df.columns \cup {"quarantine_reason"},
                  rows |-> [i \in 1..Len(quarantined) |->
                              [index |-> quarantined[i].index,
                               cells |-> quarantined[i].cells,
                               quarantine_reason |->
                                  join_reasons(row_reasons(df, quarantined[i], required))]]]]

(* Variant: the exponent is replaced by a factor *)
backoff_linear(cfg, attempt) == cfg.base_backoff_seconds * attempt

(* Line 128 *)
backoff(cfg, attempt) == cfg.base_backoff_seconds * (2 ^ (attempt - 1))

(* Line 118 and line 131 with lines 91-93: the loop goes on to the next    *)
(* read, or ends with None, which makes run_for_table log and return       *)
while_attempts_left(cfg, ing) ==
    IF ing.attempt < cfg.max_retries THEN [ing EXCEPT !.pc = "read_csv"]
    ELSE [ing EXCEPT !.pc = "returned", !.outcome = "read_failed"]

(* Variant: the loop is left one failure before the limit *)
on_read_error_gives_up_early(cfg, ing) ==
    LET failed == [ing EXCEPT !.attempt = @ + 1, !.reads = Append(@, "failed")]
    IN  IF failed.attempt + 1 >= cfg.max_retries
        THEN [failed EXCEPT !.pc = "returned", !.outcome = "read_failed"]
        ELSE [failed EXCEPT !.pc = "backoff"]

(* Lines 123-127: the except clause up to the break *)
on_read_error(cfg, ing) ==
    LET failed == [ing EXCEPT !.attempt = @ + 1, !.reads = Append(@, "failed")]
    IN  IF failed.attempt >= cfg.max_retries
        THEN [failed EXCEPT !.pc = "returned", !.outcome = "read_failed"]
        ELSE [failed EXCEPT !.pc = "backoff"]

(* Lines 99-103: the files run_for_table writes, in order *)
written(table_name, split) ==
    (IF split.quarantine_df.rows /= <<>>
     THEN << [dir |-> "quarantine_dir", table_name |-> table_name,
              suffix |-> "csv", frame |-> split.quarantine_df] >>
     ELSE <<>>)
    \o (IF split.valid_df.rows /= <<>>
        THEN << [dir |-> "output_dir", table_name |-> table_name,
                 suffix |-> "parquet", frame |-> split.valid_df] >>
        ELSE <<>>)

InitPipeline ==
    /\ schema_registry = EmptyDict
    /\ schema_change_log = <<>>
    /\ schema_approval_queue = <<>>
    /\ last = [op |-> "__init__"]
    /\ batch = <<>>
    /\ decision = NoDecision
    /\ sessions = NoSessions
    /\ config \in Configs
    /\ ingestion = NotRunning
    /\ files = <<>>
    /\ OthersIdle

(* run_for_table up to the first test of the while loop *)
RunForTable ==
    /\ ingestion.pc = "idle"
    /\ \E table_name \in DOMAIN registry_schemas :
         ingestion' = while_attempts_left(config,
                         [pc |-> "read_csv", table_name |-> table_name,
                          attempt |-> 0, reads |-> <<>>, slept |-> <<>>,
                          outcome |-> "running", df |-> NoFrame,
                          valid_df |-> NoFrame, quarantine_df |-> NoFrame])
    /\ UNCHANGED <<schema_registry, schema_change_log, schema_approval_queue, last,
                   batch, decision, dashboardVars, otherVars, config, files>>

(* pd.read_csv raises *)
ReadCsvFails ==
    /\ ingestion.pc = "read_csv"
    /\ ingestion' = on_read_error(config, ingestion)
    /\ UNCHANGED <<schema_registry, schema_change_log, schema_approval_queue, last,
                   batch, decision, dashboardVars, otherVars, config, files>>

(* time.sleep(backoff), then the test of the while loop *)
Backoff ==
    /\ ingestion.pc = "backoff"
    /\ ingestion' = while_attempts_left(config,
                       [ingestion EXCEPT !.slept = Append(@, backoff(config, ingestion.attempt))])
    /\ UNCHANGED <<schema_registry, schema_change_log, schema_approval_queue, last,
                   batch, decision, dashboardVars, otherVars, config, files>>

(* pd.read_csv returns the frame; run_for_table validates, writes, returns *)
ReadCsvSucceeds ==
    /\ ingestion.pc = "read_csv"
    /\ \E data \in Datasets :
         LET split == validate_and_split(data, registry_schemas[ingestion.table_name])
         IN  /\ ingestion' = [ingestion EXCEPT !.pc = "returned",
                                               !.reads = Append(@, "ok"),
                                               !.outcome = "completed",
                                               !.df = data,
                                               !.valid_df = split.valid_df,
                                               !.quarantine_df = split.quarantine_df]
             /\ files' = files \o written(ingestion.table_name, split)
    /\ UNCHANGED <<schema_registry, schema_change_log, schema_approval_queue, last,
                   batch, decision, dashboardVars, otherVars, config>>

NextPipeline == RunForTable \/ ReadCsvFails \/ Backoff \/ ReadCsvSucceeds

SpecPipeline == InitPipeline /\ [][NextPipeline]_vars

(***************************************************************************)
(* A program that calls run_for_table for a list of tables, one after      *)
(* another, as the __main__ block of batch_pipeline.py does.  Here a call  *)
(* is followed through its lookup, its read, and each of its two writes;   *)
(* utcnow is the clock read by datetime.utcnow(), in whole seconds, which  *)
(* is all that the "%Y%m%dT%H%M%S" format of the file names keeps.         *)
(***************************************************************************)
MaxRuns == 3
MaxClock == 2

(* Two tables of the registry and one that has no schema in it *)
RunTables == {"customers", "products", "suppliers"}

CustomerRow(customer_id, email) ==
    [col \in {"customer_id", "email"} |-> IF col = "customer_id" THEN customer_id ELSE email]

(* The frames a read returns: no row, a complete row, a row without email, *)
(* and one row of each kind                                                *)
RunFrames ==
    { DataFrame({"customer_id", "email"}, <<>>),
      DataFrame({"customer_id", "email"}, << CustomerRow("x", "x") >>),
      DataFrame({"customer_id", "email"}, << CustomerRow("x", NaN) >>),
      DataFrame({"customer_id", "email"}, << CustomerRow("x", "x"), CustomerRow("x", NaN) >>) }

(* A return of run_for_table: the caller goes on to its next statement *)
returns(c) == [c EXCEPT !.pc = "main", !.next = @ + 1]

(* An exception that leaves run_for_table: the caller has no handler *)
raises(c, error) == [c EXCEPT !.pc = "raised", !.error = error]

(* Variant: a table without a schema is logged and skipped *)
run_for_table_skips_unknown(c, table_name) ==
    LET called == [c EXCEPT !.call = [table_name |-> table_name, reads |-> 0]]
    IN  IF table_name \notin DOMAIN registry_schemas
        THEN returns(called)
        ELSE [called EXCEPT !.pc = "read_with_retries"]

(* Lines 83-89: the lookup of the schema, before the read *)
run_for_table(c, table_name) ==
    LET called == [c EXCEPT !.call = [table_name |-> table_name, reads |-> 0]]
    IN  IF table_name \notin DOMAIN registry_schemas
        THEN raises(called, "ValueError")
        ELSE [called EXCEPT !.pc = "read_with_retries"]

(* Lines 102-110 *)
if_valid_not_empty(c) ==
    IF c.call.valid_df.rows /= <<>> THEN [c EXCEPT !.pc = "write_parquet"]
    ELSE returns(c)

(* Lines 99-100 *)
if_quarantine_not_empty(c) ==
    IF c.call.quarantine_df.rows /= <<>> THEN [c EXCEPT !.pc = "write_quarantine"]
    ELSE if_valid_not_empty(c)

(* Lines 216-225: the file to_csv writes, at the path of line 218 *)
write_quarantine(table_name, quarantine_df, now, run) ==
    [dir |-> "quarantine_dir", table_name |-> table_name, suffix |-> "csv",
     ts |-> now, frame |-> quarantine_df, run |-> run]

(* Lines 227-236: the file to_parquet writes, at the path of line 229 *)
write_parquet(table_name, valid_df, now, run) ==
    [dir |-> "output_dir", table_name |-> table_name, suffix |-> "parquet",
     ts |-> now, frame |-> valid_df, run |-> run]

(* Lines 218 and 229: the path of a file *)
out_path(file) == <<file.dir, file.table_name, file.ts, file.suffix>>

ManagerIdle ==
    /\ schema_registry = EmptyDict
    /\ schema_change_log = <<>>
    /\ schema_approval_queue = <<>>
    /\ last = [op |-> "__init__"]
    /\ batch = <<>>
    /\ decision = NoDecision

PipelineIdle == config = IngestionConfig /\ ingestion = NotRunning /\ files = <<>>

InitCaller ==
    /\ ManagerIdle
    /\ sessions = NoSessions
    /\ PipelineIdle
    /\ \E n \in 1..MaxRuns : \E tables \in [1..n -> RunTables] :
          caller = [pc |-> "main", tables |-> tables, next |-> 1, error |-> "None",
                    call |-> [table_name |-> "", reads |-> 0]]
    /\ utcnow = 0
    /\ SchedulerIdle
    /\ ScdIdle
    /\ threads = <<>>

(* The next run_for_table statement of the caller *)
CallRunForTable ==
    /\ caller.pc = "main"
    /\ caller.next <= Len(caller.tables)
    /\ caller' = run_for_table(caller, caller.tables[caller.next])
    /\ UNCHANGED <<managerVars, dashboardVars, pipelineVars, utcnow,
                   pipeline_runs, scheduler, dim_customer, staging, threads>>

(* _read_with_retries returns None: lines 91-93 log and return *)
ReadReturnsNone ==
    /\ caller.pc = "read_with_retries"
    /\ caller' = returns([caller EXCEPT !.call.reads = config.max_retries])
    /\ UNCHANGED <<managerVars, dashboardVars, pipelineVars, utcnow,
                   pipeline_runs, scheduler, dim_customer, staging, threads>>

(* _read_with_retries returns a frame: line 97 splits it *)
ReadReturnsFrame ==
    /\ caller.pc = "read_with_retries"
    /\ \E data \in RunFrames :
         LET split == validate_and_split(data, registry_schemas[caller.call.table_name])
         IN  caller' = if_quarantine_not_empty(
                          [caller EXCEPT !.call = @ @@ [valid_df |-> split.valid_df,
                                                        quarantine_df |-> split.quarantine_df],
                                         !.call.reads = 1])
    /\ UNCHANGED <<managerVars, dashboardVars, pipelineVars, utcnow,
                   pipeline_runs, scheduler, dim_customer, staging, threads>>

(* Line 100: to_csv writes the quarantine file *)
WriteQuarantine ==
    /\ caller.pc = "write_quarantine"
    /\ files' = Append(files, write_quarantine(caller.call.table_name,
                                               caller.call.quarantine_df, utcnow, caller.next))
    /\ caller' = if_valid_not_empty(caller)
    /\ UNCHANGED <<managerVars, dashboardVars, config, ingestion, utcnow,
                   pipeline_runs, scheduler, dim_customer, staging, threads>>

(* Line 100: to_csv raises *)
WriteQuarantineRaises ==
    /\ caller.pc = "write_quarantine"
    /\ caller' = raises(caller, "OSError")
    /\ UNCHANGED <<managerVars, dashboardVars, pipelineVars, utcnow,
                   pipeline_runs, scheduler, dim_customer, staging, threads>>

(* Line 103: to_parquet writes the file of the valid rows *)
WriteParquet ==
    /\ caller.pc = "write_parquet"
    /\ files' = Append(files, write_parquet(caller.call.table_name,
                                            caller.call.valid_df, utcnow, caller.next))
    /\ caller' = returns(caller)
    /\ UNCHANGED <<managerVars, dashboardVars, config, ingestion, utcnow,
                   pipeline_runs, scheduler, dim_customer, staging, threads>>

(* Line 103: to_parquet raises *)
WriteParquetRaises ==
    /\ caller.pc = "write_parquet"
    /\ caller' = raises(caller, "OSError")
    /\ UNCHANGED <<managerVars, dashboardVars, pipelineVars, utcnow,
                   pipeline_runs, scheduler, dim_customer, staging, threads>>

(* A second passes *)
Tick ==
    /\ utcnow < MaxClock
    /\ utcnow' = utcnow + 1
    /\ UNCHANGED <<managerVars, dashboardVars, pipelineVars, caller,
                   pipeline_runs, scheduler, dim_customer, staging, threads>>

NextCaller ==
    \/ CallRunForTable
    \/ ReadReturnsNone
    \/ ReadReturnsFrame
    \/ WriteQuarantine
    \/ WriteQuarantineRaises
    \/ WriteParquet
    \/ WriteParquetRaises
    \/ Tick

SpecCaller == InitCaller /\ [][NextCaller]_vars

(***************************************************************************)
(* The batch scheduler (src/src/ingestion/batch_scheduler.py) on its       *)
(* DuckDB connection: the table pipeline_runs, and the coroutine           *)
(* run_batch_ingestion in two steps, from its start to the INSERT of the   *)
(* run row and from there to its return.  The jobs are coroutines of one   *)
(* event loop and run_batch_ingestion awaits nothing before its last       *)
(* statement, so no other job runs between the two steps; time is counted  *)
(* in days and moves between jobs.                                         *)
(***************************************************************************)
MaxStarts == 3
MaxQuarters == 2

(* Line 306: INTERVAL '90 days' *)
retention_days == 90

(* The days on which a job is triggered *)
Days == { k * (retention_days + 1) + j : k \in 0..MaxQuarters, j \in 0..1 }

(* Lines 89-137: what the stages raise.  The import of line 92 raises      *)
(* ImportError where pandas is absent; line 113 calls                      *)
(* BatchIngestionPipeline() without the schema_registry that its __init__  *)
(* requires (batch_pipeline.py line 64) and raises TypeError.  No run      *)
(* reaches line 139.                                                       *)
StageErrors == {"ImportError", "TypeError"}

RunIds(runs) == { runs[i].run_id : i \in 1..Len(runs) }

Max(S) == CHOOSE x \in S : \A y \in S : y <= x

(* Line 74: SELECT COALESCE(MAX(run_id), 0) + 1 FROM pipeline_runs *)
next_run_id(runs) == IF runs = <<>> THEN 1 ELSE Max(RunIds(runs)) + 1

(* Lines 83-87: the row of the INSERT *)
running_row(run_id, start_time) ==
    [run_id |-> run_id, pipeline_name |-> "batch_ingestion", start_time |-> start_time,
     end_time |-> NULL, status |-> "running", rows_processed |-> 0,
     rows_quarantined |-> 0, error_message |-> NULL, duration_seconds |-> 0]

(* Variant: the WHERE clause of the UPDATE matches no row *)
mark_failed_matches_no_row(runs, run_id, start_time, end_time, error) == runs

(* Lines 164-171: UPDATE pipeline_runs SET ... WHERE run_id = {run_id} *)
mark_failed(runs, run_id, start_time, end_time, error) ==
    [i \in 1..Len(runs) |->
        IF runs[i].run_id = run_id
        THEN [runs[i] EXCEPT !.end_time = end_time,
                             !.status = "failed",
                             !.duration_seconds = end_time - start_time,
                             !.error_message = error]
        ELSE runs[i]]

(* Lines 304-307: DELETE FROM pipeline_runs WHERE start_time <             *)
(* CURRENT_DATE - INTERVAL '90 days'                                       *)
delete_old_runs(runs, today) ==
    LET Kept(run) == ~(run.start_time < today - retention_days)
    IN  SelectSeq(runs, Kept)

InitScheduler ==
    /\ ManagerIdle
    /\ sessions = NoSessions
    /\ PipelineIdle
    /\ CallerIdle
    /\ pipeline_runs = <<>>
    /\ scheduler = [pc |-> "idle", run_id |-> 0, start_time |-> 0, now |-> 0, log |-> <<>>]
    /\ ScdIdle
    /\ threads = <<>>

(* Lines 73-87: the run id, the start time, the log line and the INSERT *)
StartRun ==
    /\ scheduler.pc = "idle"
    /\ Len(scheduler.log) < MaxStarts
    /\ LET run_id == next_run_id(pipeline_runs)
       IN  /\ pipeline_runs' = Append(pipeline_runs, running_row(run_id, scheduler.now))
           /\ scheduler' = [scheduler EXCEPT !.pc = "running",
                                             !.run_id = run_id,
                                             !.start_time = scheduler.now,
                                             !.log = Append(@, run_id)]
    /\ UNCHANGED <<managerVars, dashboardVars, pipelineVars, caller, utcnow, dim_customer, staging, threads>>

(* Lines 89-178: a stage raises, the handler marks the run failed *)
FinishRun ==
    /\ scheduler.pc = "running"
    /\ \E error \in StageErrors :
         pipeline_runs' = mark_failed(pipeline_runs, scheduler.run_id,
                                      scheduler.start_time, scheduler.now, error)
    /\ scheduler' = [scheduler EXCEPT !.pc = "idle"]
    /\ UNCHANGED <<managerVars, dashboardVars, pipelineVars, caller, utcnow, dim_customer, staging, threads>>

(* Lines 301-320: cleanup_old_data *)
CleanupOldData ==
    /\ scheduler.pc = "idle"
    /\ pipeline_runs' = delete_old_runs(pipeline_runs, scheduler.now)
    /\ UNCHANGED <<managerVars, dashboardVars, pipelineVars, caller, utcnow, scheduler,
                   dim_customer, staging, threads>>

(* Time passes until the next job is triggered *)
Advance ==
    /\ scheduler.pc = "idle"
    /\ \E day \in Days :
         /\ day > scheduler.now
         /\ scheduler' = [scheduler EXCEPT !.now = day]
    /\ UNCHANGED <<managerVars, dashboardVars, pipelineVars, caller, utcnow, pipeline_runs,
                   dim_customer, staging, threads>>

NextScheduler == StartRun \/ FinishRun \/ CleanupOldData \/ Advance

SpecScheduler == InitScheduler /\ [][NextScheduler]_vars

(* run_batch_ingestion awaits nothing between its INSERT and its UPDATE:   *)
(* a run that has started goes on to its handler                           *)
SpecSchedulerFair == SpecScheduler /\ WF_vars(FinishRun)

(***************************************************************************)
(* The SCD Type 2 step of dim_customer                                     *)
(* (src/src/transformation/scd_type2.py).  dim_customer is the table of    *)
(* build_schema.py, which declares no key, as the list of its rows;        *)
(* staging is what read_parquet('data/raw/customers_*.parquet') returns:   *)
(* the rows of every customers file the pipeline has written, so a         *)
(* customer has a row for each file it is in.  Of the attributes only      *)
(* city is kept, the one the step compares.  CURRENT_TIMESTAMP is utcnow;  *)
(* a timestamp that is NULL is NoTimestamp, below every timestamp, as MAX  *)
(* passes over NULL.                                                       *)
(***************************************************************************)
MaxScdRuns == 3
MaxStaging == 3

NoTimestamp == 0

Customers == {"C001", "C002"}

Cities == {"Pune", "Delhi"}

Snapshots ==
    UNION { [1..n -> { [customer_id |-> c, city |-> city] : c \in Customers, city \in Cities }] :
            n \in 0..MaxStaging }

(* build_schema.py lines 115-137: the initial load, one current row of     *)
(* version 1 for each customer                                             *)
InitialDimensions ==
    { << [customer_id |-> "C001", city |-> city1, valid_from |-> NoTimestamp,
          valid_to |-> NoTimestamp, is_current |-> TRUE, version |-> 1],
         [customer_id |-> "C002", city |-> city2, valid_from |-> NoTimestamp,
          valid_to |-> NoTimestamp, is_current |-> TRUE, version |-> 1] >> :
      city1 \in Cities, city2 \in Cities }

(* Lines 26-41: the check for duplicate (customer_id, version) *)
dup_count(dim) ==
    Cardinality({ <<dim[i].customer_id, dim[i].version>> :
                     i \in { k \in 1..Len(dim) :
                               \E j \in 1..Len(dim) :
                                  /\ j /= k
                                  /\ dim[j].customer_id = dim[k].customer_id
                                  /\ dim[j].version = dim[k].version } })

(* Lines 57-73: staging_customers JOIN dim_customer on customer_id, where  *)
(* the row of the dimension is current and the cities differ               *)
RECURSIVE changed_customers(_, _)
changed_customers(stage, dim) ==
    IF stage = <<>> THEN <<>>
    ELSE LET s == Head(stage)
             Joined(d) == /\ d.customer_id = s.customer_id
                          /\ d.is_current
                          /\ s.city /= d.city
             joined == SelectSeq(dim, Joined)
         IN  [i \in 1..Len(joined) |->
                 [customer_id |-> s.customer_id, city |-> s.city,
                  current_version |-> joined[i].version]]
             \o changed_customers(Tail(stage), dim)

(* Lines 88-96: Step B, the UPDATE that expires the current rows *)
expire_old_rows(dim, changed, now) ==
    [i \in 1..Len(dim) |->
        IF /\ dim[i].is_current
           /\ \E k \in 1..Len(changed) : changed[k].customer_id = dim[i].customer_id
        THEN [dim[i] EXCEPT !.is_current = FALSE, !.valid_to = now]
        ELSE dim[i]]

(* Lines 127-132: SELECT MAX(valid_to) FROM dim_customer d2 WHERE          *)
(* d2.customer_id = d.customer_id                                          *)
max_valid_to(dim, customer_id) ==
    Max({ dim[i].valid_to : i \in { k \in 1..Len(dim) : dim[k].customer_id = customer_id } })

(* Lines 101-140: Step C, the rows of the INSERT: changed_customers JOIN   *)
(* the just-expired row of the customer, LEFT JOIN the row that already    *)
(* has the next version, kept where there is none                          *)
RECURSIVE new_versions(_, _, _)
new_versions(changed, dim, now) ==
    IF changed = <<>> THEN <<>>
    ELSE LET s == Head(changed)
             Expired(d) ==
                /\ d.customer_id = s.customer_id
                /\ ~d.is_current
                /\ d.valid_to /= NoTimestamp
                /\ d.valid_to = max_valid_to(dim, d.customer_id)
                /\ ~\E k \in 1..Len(dim) :
                       /\ dim[k].customer_id = d.customer_id
                       /\ dim[k].version = d.version + 1
             expired == SelectSeq(dim, Expired)
         IN  [i \in 1..Len(expired) |->
                 [customer_id |-> s.customer_id, city |-> s.city, valid_from |-> now,
                  valid_to |-> NoTimestamp, is_current |-> TRUE,
                  version |-> expired[i].version + 1]]
             \o new_versions(Tail(changed), dim, now)

(* Lines 6-156: main(), the table it leaves behind *)
scd_type2(dim, stage, now) ==
    IF dup_count(dim) > 0 THEN dim
    ELSE LET changed == changed_customers(stage, dim)
         IN  IF Len(changed) = 0 THEN dim
             ELSE LET expired == expire_old_rows(dim, changed, now)
                  IN  expired \o new_versions(changed, expired, now)

InitScd ==
    /\ ManagerIdle
    /\ sessions = NoSessions
    /\ PipelineIdle
    /\ CallerIdle
    /\ SchedulerIdle
    /\ dim_customer \in InitialDimensions
    /\ staging \in Snapshots
    /\ threads = <<>>

(* One run of the script, at the next timestamp *)
RunScdType2 ==
    /\ utcnow < MaxScdRuns
    /\ utcnow' = utcnow + 1
    /\ dim_customer' = scd_type2(dim_customer, staging, utcnow + 1)
    /\ UNCHANGED <<managerVars, dashboardVars, pipelineVars, caller, pipeline_runs, scheduler,
                   staging, threads>>

NextScd == RunScdType2

SpecScd == InitScd /\ [][NextScd]_vars

(***************************************************************************)
(* Ingestions of one table that run at the same time, each in a thread of  *)
(* its own, on one AdaptiveSchemaManager.  The manager holds no lock, so   *)
(* a thread can be suspended between any two statements of                 *)
(* process_ingestion_with_adaptive_schema: after detection, whose          *)
(* DataFrame work and whose database call in log_pending_change release    *)
(* the interpreter, after the loop of _update_registry, and inside         *)
(* version += 1, which reads the item, adds, and stores the item.          *)
(***************************************************************************)
NThreads == 2

Threads == 1..NThreads

(* The frames the threads ingest: float columns with a repeated value *)
ThreadFrames ==
    { f \in SmallFrames : \A c \in f.columns : f.col[c].dtype = "float64" }

NotStarted(table_name, df) ==
    [pc |-> "detect", table_name |-> table_name, df |-> df, changes |-> <<>>,
     decision |-> NoDecision, version |-> 0, status |-> "running"]

(* Lines 306-336: from detection to the decision and its branch *)
after_detection(thread, det, changes) ==
    IF det.missing /= {} THEN [thread EXCEPT !.pc = "returned", !.status = "rejected"]
    ELSE IF changes = <<>> THEN [thread EXCEPT !.pc = "returned", !.status = "approved"]
    ELSE LET chosen == apply_noise_reduction_strategy(changes)
         IN  IF chosen.action = "auto_approve"
             THEN [thread EXCEPT !.pc = "update_registry", !.changes = chosen.changes,
                                 !.decision = chosen]
             ELSE [thread EXCEPT !.pc = "returned", !.changes = changes,
                                 !.decision = chosen, !.status = "pending_approval"]

InitThreads ==
    /\ schema_registry = InitialRegistry
    /\ schema_change_log = <<>>
    /\ schema_approval_queue = <<>>
    /\ last = [op |-> "initialize_registry", before |-> EmptyDict]
    /\ batch = <<>>
    /\ decision = NoDecision
    /\ sessions = NoSessions
    /\ PipelineIdle
    /\ CallerIdle
    /\ SchedulerIdle
    /\ ScdIdle
    /\ threads \in [Threads -> { NotStarted("test_table", f) : f \in ThreadFrames }]

(* Lines 306-331: detect_schema_changes, the two early returns, the        *)
(* decision and log_pending_change, whose INSERT is refused                *)
ThreadDetects(t) ==
    /\ threads[t].pc = "detect"
    /\ LET det == detect_schema_changes(schema_registry, threads[t].table_name, threads[t].df)
       IN  /\ schema_registry' = det.registry
           /\ \E changes \in Iterations(det) :
                 threads' = [threads EXCEPT ![t] = after_detection(@, det, changes)]
    /\ UNCHANGED <<schema_change_log, schema_approval_queue, last, batch, decision,
                   dashboardVars, pipelineVars, caller, utcnow, pipeline_runs, scheduler, dim_customer, staging>>

(* Lines 347-357: the loop of _update_registry *)
ThreadUpdatesColumns(t) ==
    /\ threads[t].pc = "update_registry"
    /\ schema_registry' =
          [schema_registry EXCEPT ![threads[t].table_name] =
              update_registry_entry(@, threads[t].changes)]
    /\ threads' = [threads EXCEPT ![t].pc = "load_version"]
    /\ UNCHANGED <<schema_change_log, schema_approval_queue, last, batch, decision,
                   dashboardVars, pipelineVars, caller, utcnow, pipeline_runs, scheduler, dim_customer, staging>>

(* Line 360, version += 1: the item is read *)
ThreadLoadsVersion(t) ==
    /\ threads[t].pc = "load_version"
    /\ threads' = [threads EXCEPT ![t].pc = "store_version",
                                  ![t].version = schema_registry[threads[t].table_name].version]
    /\ UNCHANGED <<managerVars, dashboardVars, pipelineVars, caller, utcnow, pipeline_runs, scheduler,
                   dim_customer, staging>>

(* Line 360, version += 1: the sum is stored; line 336 returns *)
ThreadStoresVersion(t) ==
    /\ threads[t].pc = "store_version"
    /\ schema_registry' =
          [schema_registry EXCEPT ![threads[t].table_name].version = threads[t].version + 1]
    /\ threads' = [threads EXCEPT ![t].pc = "returned", ![t].status = "approved"]
    /\ UNCHANGED <<schema_change_log, schema_approval_queue, last, batch, decision,
                   dashboardVars, pipelineVars, caller, utcnow, pipeline_runs, scheduler, dim_customer, staging>>

NextThreads ==
    \E t \in Threads :
       \/ ThreadDetects(t)
       \/ ThreadUpdatesColumns(t)
       \/ ThreadLoadsVersion(t)
       \/ ThreadStoresVersion(t)

SpecThreads == InitThreads /\ [][NextThreads]_vars

(***************************************************************************)
(* Properties                                                              *)
(***************************************************************************)
PolicyActions ==
    {"auto_approve", "manual_review", "batch_approval_required", "quarantine_all", "none"}

HoldActions == {"manual_review", "batch_approval_required", "quarantine_all"}

NumLow(changes) ==
    Cardinality({ i \in 1..Len(changes) : changes[i].confidence < confidence_threshold })

NumHigh(changes) ==
    Cardinality({ i \in 1..Len(changes) : changes[i].confidence >= confidence_threshold })

Decided == decision /= NoDecision

Processed == last.op = "process_ingestion_with_adaptive_schema"

(* C1: for every batch the policy returns one action of the fixed set of   *)
(* five, and more than 5 candidates below the threshold always give        *)
(* quarantine_all, however many high-confidence candidates there are.      *)
C1_DecisionCoverage ==
    Decided =>
        /\ decision.action \in PolicyActions
        /\ NumLow(batch) > 5 => decision.action = "quarantine_all"

(* 6 low-confidence and 2 high-confidence candidates were decided *)
C1_Witness ==
    /\ Decided
    /\ NumLow(batch) = 6
    /\ NumHigh(batch) = 2
    /\ decision.action = "quarantine_all"

(* The priority chain as the specification lists it, first match wins *)
SpecifiedChain(changes) ==
    IF NumLow(changes) > 5 THEN "quarantine_all"
    ELSE IF NumHigh(changes) = Len(changes) /\ Len(changes) <= 3 THEN "auto_approve"
    ELSE IF Len(changes) > 1 /\ NumLow(changes) > 0 THEN "batch_approval_required"
    ELSE IF Len(changes) = 1 /\ NumHigh(changes) = 1 THEN "auto_approve"
    ELSE "manual_review"

(* C2: for every non-empty batch the action the code returns (mass-low,    *)
(* mixed, single high, all-high of at most 3) is the action of the         *)
(* specified chain (mass-low, all-high of at most 3, mixed, single high).  *)
C2_ChainEquivalence ==
    (Decided /\ batch /= <<>>) => decision.action = SpecifiedChain(batch)

(* A batch of 3 candidates, all high, was decided: the two chains reach it *)
(* by different rules                                                      *)
C2_Witness ==
    /\ Decided
    /\ Len(batch) = 3
    /\ NumHigh(batch) = 3
    /\ decision.action = "auto_approve"

AutoApproved == Processed /\ last.decision.action = "auto_approve"

(* C3: over every sequence of initialize_registry, detect_schema_changes   *)
(* and process_ingestion_with_adaptive_schema calls, the version of a      *)
(* table that stays in the registry never decreases, and a step that       *)
(* accepts a change set makes it strictly greater.                         *)
C3_MonotonicVersion ==
    [][ \A t \in (DOMAIN schema_registry) \cap (DOMAIN schema_registry') :
          /\ schema_registry'[t].version >= schema_registry[t].version
          /\ (AutoApproved' /\ last'.table = t /\ last'.before = schema_registry)
               => schema_registry'[t].version > schema_registry[t].version ]_vars

(* What a second call with the same table and dataset does now *)
Rerun ==
    LET det == detect_schema_changes(schema_registry, last.table, last.df)
    IN  { process_ingestion_with_adaptive_schema(
              schema_registry, schema_change_log, schema_approval_queue,
              last.table, last.df, changes) : changes \in Iterations(det) }

(* C4: after a call that auto-approved the changes of a dataset, detection *)
(* on the same dataset and table finds no candidate, and processing it     *)
(* again returns approved/process and leaves the version as it is.         *)
C4_Idempotence ==
    AutoApproved =>
        LET det == detect_schema_changes(schema_registry, last.table, last.df)
        IN  /\ det.new_columns = {}
            /\ det.type_changes = {}
            /\ det.missing = {}
            /\ \A out \in Rerun :
                 /\ out.result.status = "approved"
                 /\ out.result.action = "process"
                 /\ out.registry[last.table].version = schema_registry[last.table].version

(* An auto-approved call that applied a type change *)
C4_Witness ==
    /\ AutoApproved
    /\ \E i \in 1..Len(last.changes) : last.changes[i].type = "type_change"

(* C5: in every reachable registry, for every table, no column is both     *)
(* required and optional and no column is listed twice in optional.        *)
C5_RequiredOptionalDisjoint ==
    \A t \in DOMAIN schema_registry :
        /\ Range(schema_registry[t].required) \cap Range(schema_registry[t].optional) = {}
        /\ Cardinality(Range(schema_registry[t].optional)) = Len(schema_registry[t].optional)

(* An auto-approved call added a column to a table that already had an     *)
(* optional column                                                         *)
C5_Witness ==
    /\ AutoApproved
    /\ \E i \in 1..Len(last.changes) : last.changes[i].type = "new_column"
    /\ Len(schema_registry[last.table].optional) >= 2

Held == Processed /\ last.decision.action \in HoldActions

(* The registry as detection leaves it: an unknown table has its default   *)
(* entry                                                                   *)
AfterDetection(reg, t) == IF t \in DOMAIN reg THEN reg ELSE Put(reg, t, DefaultSchema)

(* C6 as stated: a held decision returns pending_approval/hold and leaves  *)
(* the registry exactly as it was before the call; the registry changes    *)
(* only on auto_approve.                                                   *)
C6_HoldLeavesRegistry ==
    /\ Held =>
         /\ last.result.status = "pending_approval"
         /\ last.result.action = "hold"
         /\ schema_registry = last.before
    /\ (Processed /\ schema_registry /= last.before) => AutoApproved

(* C6 amended: a held decision returns pending_approval/hold and leaves    *)
(* every entry of the registry as it was, except that a table the registry *)
(* did not know has got its default entry from detection; beyond that the  *)
(* registry changes only on auto_approve.                                  *)
C6_HoldLeavesEntries ==
    /\ Held =>
         /\ last.result.status = "pending_approval"
         /\ last.result.action = "hold"
         /\ schema_registry = AfterDetection(last.before, last.table)
    /\ (Processed /\ schema_registry /= AfterDetection(last.before, last.table))
         => AutoApproved

(* A held decision on a table the registry knew, with new columns in it *)
C6_Witness ==
    /\ Held
    /\ last.table \in DOMAIN last.before
    /\ \E i \in 1..Len(last.changes) : last.changes[i].type = "new_column"

(* C7: a dataset that lacks a required column is rejected with action      *)
(* quarantine and a reason that names the missing columns, whatever else   *)
(* it carries, and the call changes neither the registry nor the change    *)
(* log nor the approval queue.                                             *)
C7_MissingRequiredRejected ==
    (Processed /\ last.table \in DOMAIN last.before
       /\ Range(last.before[last.table].required) \ last.df.columns /= {}) =>
        /\ last.result.status = "rejected"
        /\ last.result.action = "quarantine"
        /\ last.result.reason.columns =
               Range(last.before[last.table].required) \ last.df.columns
        /\ schema_registry = last.before
        /\ last.log_inserts = <<>>
        /\ last.queue_inserts = <<>>

(* A rejected dataset that also carried a new column and a type change *)
C7_Witness ==
    /\ Processed
    /\ last.result.status = "rejected"
    /\ \E i \in 1..Len(last.changes) : last.changes[i].type = "new_column"
    /\ \E i \in 1..Len(last.changes) : last.changes[i].type = "type_change"

(* C8: a dataset whose columns all are expected columns of the table, with *)
(* no required column missing, gives zero candidates and approved/process  *)
(* without any write to the change log or the approval queue.              *)
C8_MatchingColumnsApproved ==
    (Processed /\ last.table \in DOMAIN last.before
       /\ last.df.columns \subseteq
            Range(last.before[last.table].required \o last.before[last.table].optional)
       /\ Range(last.before[last.table].required) \subseteq last.df.columns) =>
        /\ last.changes = <<>>
        /\ last.result.status = "approved"
        /\ last.result.action = "process"
        /\ last.log_inserts = <<>>
        /\ last.queue_inserts = <<>>

NewColumnsOf(changes) == { i \in 1..Len(changes) : changes[i].type = "new_column" }

(* C9: the test's frame with the added column payment_method, on the       *)
(* initialized registry, gives exactly one NEW_COLUMN candidate, at or     *)
(* above the threshold, and the decision auto_approve.                     *)
C9_PaymentMethodAutoApproved ==
    (Processed /\ last.table = "transactions" /\ last.df = df2
       /\ last.before = InitialRegistry) =>
        /\ Cardinality(NewColumnsOf(last.changes)) = 1
        /\ \A i \in NewColumnsOf(last.changes) :
              /\ last.changes[i].column = "payment_method"
              /\ last.changes[i].confidence >= confidence_threshold
        /\ last.decision.action = "auto_approve"

(* C10: a dataset with no required column missing that adds 6 new columns, *)
(* each below the threshold, is decided quarantine_all with a reason that  *)
(* gives the number of low-confidence changes, the call returns            *)
(* pending_approval/hold, and none of the 6 columns enters the registry.   *)
C10_SixNoisyColumnsQuarantined ==
    (Processed /\ last.missing = {}
       /\ Cardinality(NewColumnsOf(last.changes)) = 6
       /\ \A i \in NewColumnsOf(last.changes) :
             last.changes[i].confidence < confidence_threshold) =>
        /\ last.decision.action = "quarantine_all"
        /\ last.decision.reason.low = NumLow(last.changes)
        /\ last.decision.reason.low >= 6
        /\ last.result.status = "pending_approval"
        /\ last.result.action = "hold"
        /\ \A i \in NewColumnsOf(last.changes) :
             /\ last.changes[i].column \notin Range(schema_registry[last.table].optional)
             /\ last.changes[i].column \notin DOMAIN schema_registry[last.table].types

(* The test's frame with the six random_i columns was processed on the     *)
(* initialized registry                                                    *)
C10_Witness ==
    /\ Processed
    /\ last.table = "transactions"
    /\ last.df = df3
    /\ last.before = InitialRegistry
    /\ last.decision.action = "quarantine_all"

Detected == last.op = "detect_schema_changes"

(* C11: a detection call for a table the registry does not know creates    *)
(* the entry with required empty, optional empty, no types and version 1,  *)
(* makes every incoming column a new_column candidate, once, and reports   *)
(* no missing required column.                                             *)
C11_UnknownTableDetected ==
    ((Detected \/ Processed) /\ last.table \notin DOMAIN last.before) =>
        /\ Detected =>
              schema_registry =
                  Put(last.before, last.table,
                      [version |-> 1, required |-> <<>>, optional |-> <<>>,
                       types |-> EmptyDict])
        /\ \A i \in 1..Len(last.changes) : last.changes[i].type = "new_column"
        /\ { last.changes[i].column : i \in 1..Len(last.changes) } = last.df.columns
        /\ Len(last.changes) = Cardinality(last.df.columns)
        /\ last.missing = {}

(* Detection ran on the frame of the runtime check, for a table the        *)
(* registry did not hold                                                   *)
C11_Witness ==
    /\ Detected
    /\ last.table = "test_table"
    /\ last.table \notin DOMAIN last.before
    /\ last.df.columns = {"id", "new_col"}
    /\ Len(last.changes) = 2

(* C12: for a column of the dataset that the registry lists, a type_change *)
(* candidate is emitted only when declared and observed type differ after  *)
(* every integer subtype is taken to the one integer class; a column       *)
(* declared int64 and observed int32 gives no candidate.                   *)
C12_IntegerSubtypesNormalized ==
    (Detected \/ Processed) =>
        \A i \in 1..Len(last.changes) :
            last.changes[i].type = "type_change" =>
                simple_type[last.changes[i].old_type] /= simple_type[last.changes[i].new_type]

Terminal == {"approved", "rejected"}

Resolved == last.op \in {"Approve", "Reject"}

C14_EscalationEnqueuesOnce ==
    [][ Processed' =>
          IF last'.decision.action \in HoldActions
          THEN /\ Len(schema_approval_queue') = Len(schema_approval_queue) + 1
               /\ SubSeq(schema_approval_queue', 1, Len(schema_approval_queue))
                    = schema_approval_queue
               /\ LET row == schema_approval_queue'[Len(schema_approval_queue')]
                  IN  /\ row.status = "pending"
                      /\ row.queue_id /= NULL
                      /\ \A i \in 1..Len(schema_approval_queue) :
                            row.queue_id > schema_approval_queue[i].queue_id
          ELSE schema_approval_queue' = schema_approval_queue ]_vars

(* C15: a call that detects k >= 1 candidates and no missing required      *)
(* column appends exactly k entries to schema_change_log, one per          *)
(* candidate, whatever the decision is.                                    *)
C15_OneEntryPerCandidate ==
    [][ (Processed' /\ last'.missing = {} /\ Len(last'.changes) >= 1) =>
          /\ Len(schema_change_log') = Len(schema_change_log) + Len(last'.changes)
          /\ \A i \in 1..Len(last'.changes) :
                LET entry == schema_change_log'[Len(schema_change_log) + i]
                IN  /\ entry.table_name = last'.table
                    /\ entry.column_name = last'.changes[i].column
                    /\ entry.change_type = last'.changes[i].type ]_vars

(* C17: a call in which an INSERT into schema_change_log or into           *)
(* schema_approval_queue failed returns the status and action that its     *)
(* decision stands for, and on auto_approve the registry has the changes   *)
(* applied and the version raised, as after a call whose writes succeed.   *)
C17_WriteFailureSwallowed ==
    [][ (/\ Processed'
         /\ \/ Len(schema_change_log') < Len(schema_change_log) + Len(last'.log_inserts)
            \/ Len(schema_approval_queue')
                 < Len(schema_approval_queue) + Len(last'.queue_inserts)) =>
          /\ last'.decision.action = "auto_approve" =>
               /\ last'.result.status = "approved"
               /\ last'.result.action = "process"
               /\ schema_registry' =
                    update_registry(AfterDetection(schema_registry, last'.table),
                                    last'.table, last'.changes)
          /\ last'.decision.action \in HoldActions =>
               /\ last'.result.status = "pending_approval"
               /\ last'.result.action = "hold"
               /\ schema_registry' = AfterDetection(schema_registry, last'.table) ]_vars

(* An auto-approved call sent its INSERT statements, none of them left a   *)
(* row, and the registry has the new version                              *)
C17_Witness ==
    /\ AutoApproved
    /\ last.log_inserts /= <<>>
    /\ schema_change_log = <<>>
    /\ last.result.status = "approved"
    /\ last.table \in DOMAIN last.before
    /\ schema_registry[last.table].version = last.before[last.table].version + 1

Returned == ingestion.pc = "returned"

AllReadsFailed == \A i \in 1..Len(ingestion.reads) : ingestion.reads[i] = "failed"

RECURSIVE Sum(_)
Sum(s) == IF s = <<>> THEN 0 ELSE Head(s) + Sum(Tail(s))

(* C18: the reads of one run_for_table call never number more than         *)
(* max_retries.  When all of them have failed and the call has returned,   *)
(* there were exactly max_retries of them, no data was read, and no        *)
(* quarantine file and no valid-record file was written; when max_retries  *)
(* reads have failed the call has returned.                                *)
C18_ExhaustedRetriesReturn ==
    ingestion.pc /= "idle" =>
        /\ Len(ingestion.reads) <= config.max_retries
        /\ (AllReadsFailed /\ Len(ingestion.reads) = config.max_retries) => Returned
        /\ (Returned /\ AllReadsFailed) =>
              /\ Len(ingestion.reads) = config.max_retries
              /\ ingestion.outcome = "read_failed"
              /\ ingestion.df = NoFrame
              /\ ingestion.valid_df = NoFrame
              /\ ingestion.quarantine_df = NoFrame
              /\ files = <<>>

(* Three reads failed under max_retries = 3 and the call has returned *)
C18_Witness ==
    /\ Returned
    /\ config.max_retries = 3
    /\ ingestion.reads = <<"failed", "failed", "failed">>
    /\ files = <<>>

(* C19: the i-th wait of a call lasts base x 2^(i-1) and follows the i-th  *)
(* failed read; there is no wait after a read that succeeded and none      *)
(* after the failure that uses up max_retries.  A call whose k-th read     *)
(* succeeded made exactly k reads, waited k-1 times, base x (2^(k-1) - 1)  *)
(* in all, and returned what validation made of the frame that was read.   *)
C19_BackoffThenProceed ==
    ingestion.pc /= "idle" =>
        LET base == config.base_backoff_seconds
            k == Len(ingestion.reads)
            failures == Cardinality({ i \in 1..k : ingestion.reads[i] = "failed" })
        IN  /\ \A i \in 1..Len(ingestion.slept) : ingestion.slept[i] = base * (2 ^ (i - 1))
            /\ Len(ingestion.slept) <= failures
            /\ Len(ingestion.slept) < config.max_retries \/ config.max_retries = 0
            /\ (k >= 1 /\ ingestion.reads[k] = "ok") =>
                  /\ \A i \in 1..(k - 1) : ingestion.reads[i] = "failed"
                  /\ Returned
                  /\ Len(ingestion.slept) = k - 1
                  /\ Sum(ingestion.slept) = base * (2 ^ (k - 1) - 1)
                  /\ ingestion.outcome = "completed"
                  /\ [valid_df |-> ingestion.valid_df,
                      quarantine_df |-> ingestion.quarantine_df]
                       = validate_and_split(ingestion.df,
                                            registry_schemas[ingestion.table_name])

(* Two reads failed and the third succeeded: with base 3 the waits were 3  *)
(* and 6 seconds, and a frame with rows was read                           *)
C19_Witness ==
    /\ Returned
    /\ config.base_backoff_seconds = 3
    /\ ingestion.reads = <<"failed", "failed", "ok">>
    /\ ingestion.slept = <<3, 6>>
    /\ ingestion.df.rows /= <<>>

Lacks(df, row, col) == col \notin df.columns \/ row.cells[col] = NaN

Indexes(frame) == { frame.rows[i].index : i \in 1..Len(frame.rows) }

(* C20: the valid rows and the quarantined rows are the input rows, each   *)
(* in exactly one of the two and with its cells as read; a row is          *)
(* quarantined exactly when it lacks a value in a required column; and the *)
(* reason of a quarantined row names exactly the required columns it       *)
(* lacks.                                                                  *)
C20_SplitPartitionsRows ==
    (Returned /\ ingestion.outcome = "completed") =>
        LET df == ingestion.df
            required == Range(registry_schemas[ingestion.table_name].required_columns)
            valid == ingestion.valid_df
            quarantine == ingestion.quarantine_df
        IN  /\ Indexes(valid) \cup Indexes(quarantine) = Indexes(df)
            /\ Indexes(valid) \cap Indexes(quarantine) = {}
            /\ Len(valid.rows) + Len(quarantine.rows) = Len(df.rows)
            /\ \A i \in 1..Len(valid.rows) :
                  /\ valid.rows[i] = df.rows[valid.rows[i].index + 1]
                  /\ \A col \in required : ~Lacks(df, valid.rows[i], col)
            /\ \A i \in 1..Len(quarantine.rows) :
                  LET row == quarantine.rows[i]
                      reason == row.quarantine_reason
                  IN  /\ row.cells = df.rows[row.index + 1].cells
                      /\ \E col \in required : Lacks(df, row, col)
                      /\ { reason[j].column : j \in 1..Len(reason) }
                           = { col \in required : Lacks(df, row, col) }
                      /\ \A j \in 1..Len(reason) :
                            reason[j].code =
                               IF reason[j].column \in df.columns
                               THEN "missing_required_value"
                               ELSE "missing_required_column"

(* A frame of two rows was split: one row valid, the other quarantined for *)
(* lacking the values of two required columns                              *)
C20_Witness ==
    /\ Returned
    /\ ingestion.outcome = "completed"
    /\ Len(ingestion.valid_df.rows) = 1
    /\ Len(ingestion.quarantine_df.rows) = 1
    /\ Len(ingestion.quarantine_df.rows[1].quarantine_reason) = 2

MissingRequired(df, table_name) ==
    { col \in Range(registry_schemas[table_name].required_columns) : col \notin df.columns }

(* C21: when the frame read for a table lacks a required column, every     *)
(* row of the frame is quarantined with a reason that names                *)
(* missing_required_column for that column, the valid frame has no rows,   *)
(* and no file is written to the output directory, whatever the cells of   *)
(* the rows hold.                                                          *)
C21_MissingColumnRejectsAll ==
    (Returned /\ ingestion.outcome = "completed"
              /\ MissingRequired(ingestion.df, ingestion.table_name) /= {}) =>
        LET df == ingestion.df
            quarantine == ingestion.quarantine_df
        IN  /\ ingestion.valid_df.rows = <<>>
            /\ Len(quarantine.rows) = Len(df.rows)
            /\ \A i \in 1..Len(df.rows) :
                  /\ quarantine.rows[i].index = df.rows[i].index
                  /\ quarantine.rows[i].cells = df.rows[i].cells
                  /\ \A col \in MissingRequired(df, ingestion.table_name) :
                        \E j \in 1..Len(quarantine.rows[i].quarantine_reason) :
                           quarantine.rows[i].quarantine_reason[j] =
                              [code |-> "missing_required_column", column |-> col]
            /\ \A k \in 1..Len(files) : files[k].dir /= "output_dir"
            /\ df.rows /= <<>> =>
                  \E k \in 1..Len(files) :
                     /\ files[k].dir = "quarantine_dir"
                     /\ files[k].frame = quarantine

(* A frame of two rows that has every value of the columns it carries but  *)
(* lacks the required column email was quarantined whole                   *)
C21_Witness ==
    /\ Returned
    /\ ingestion.outcome = "completed"
    /\ ingestion.table_name = "customers"
    /\ "email" \notin ingestion.df.columns
    /\ "customer_id" \in ingestion.df.columns
    /\ Len(ingestion.df.rows) = 2
    /\ \A i \in 1..2 : \A col \in ingestion.df.columns : ingestion.df.rows[i].cells[col] = "x"
    /\ Len(ingestion.quarantine_df.rows) = 2
    /\ Len(files) = 1

(* C22: no write of run_for_table goes to the path of a file that an       *)
(* earlier run wrote: the files of two runs have different paths, also     *)
(* when the runs are of one table within one second.                       *)
C22_NoOverwrite ==
    \A i \in 1..Len(files) : \A j \in 1..Len(files) :
        files[i].run /= files[j].run => out_path(files[i]) /= out_path(files[j])

(* The directories that hold a file of a run, and the directories          *)
(* that the split of a call has rows for                                   *)
OutputsOf(run) == { files[i].dir : i \in { k \in 1..Len(files) : files[k].run = run } }

ExpectedOf(call) ==
    (IF call.quarantine_df.rows /= <<>> THEN {"quarantine_dir"} ELSE {})
    \cup (IF call.valid_df.rows /= <<>> THEN {"output_dir"} ELSE {})

(* C26: when run_for_table has failed after the split, the run has left    *)
(* either every output that its split has rows for, or no output at all.   *)
C26_OutputsAtomic ==
    (caller.pc = "raised" /\ caller.error = "OSError") =>
        \/ OutputsOf(caller.next) = {}
        \/ OutputsOf(caller.next) = ExpectedOf(caller.call)

UnknownTableNext ==
    /\ caller.pc = "main"
    /\ caller.next <= Len(caller.tables)
    /\ caller.tables[caller.next] \notin DOMAIN registry_schemas

(* C30: a call of run_for_table for a table without a schema raises        *)
(* ValueError with no read made and no file written; once an exception has *)
(* left run_for_table the caller makes no further call and no file is      *)
(* written, while a read that returned None lets the caller go on to its   *)
(* next table.                                                             *)
C30_UnknownTableRaises ==
    [][ /\ (UnknownTableNext /\ caller' /= caller) =>
              /\ caller'.pc = "raised"
              /\ caller'.error = "ValueError"
              /\ caller'.call.table_name = caller.tables[caller.next]
              /\ caller'.call.reads = 0
              /\ caller'.next = caller.next
              /\ files' = files
        /\ caller.pc = "raised" => (caller' = caller /\ files' = files)
        /\ (caller.pc = "read_with_retries" /\ caller'.pc = "main") =>
              /\ caller'.error = "None"
              /\ caller'.next = caller.next + 1
              /\ files' = files
      ]_vars

(* The second of three calls raised ValueError after the first call wrote  *)
(* a file; the third table is left unprocessed                             *)
C30_Witness ==
    /\ caller.pc = "raised"
    /\ caller.error = "ValueError"
    /\ caller.call.table_name = "suppliers"
    /\ caller.next = 2
    /\ Len(caller.tables) = 3
    /\ files /= <<>>
    /\ OutputsOf(2) = {}

RunningIds == { pipeline_runs[i].run_id :
                   i \in { k \in 1..Len(pipeline_runs) : pipeline_runs[k].status = "running" } }

RowsOf(runs) == { runs[i] : i \in 1..Len(runs) }

IsTerminal(run) == run.status \in {"success", "failed"}

(* C24: no row of pipeline_runs is ever deleted: every run id of the table *)
(* is still a run id of the table after every step.                        *)
C24_RunsNeverDeleted ==
    [][RunIds(pipeline_runs) \subseteq RunIds(pipeline_runs')]_vars

(* C29: the run ids that run_batch_ingestion has assigned are all          *)
(* different, and each is greater than every run id assigned before it.    *)
C29_RunIdsIncrease ==
    \A i \in 1..Len(scheduler.log) : \A j \in 1..Len(scheduler.log) :
        i < j => scheduler.log[i] < scheduler.log[j]

(* C23: a run of run_batch_ingestion starts by inserting one row, with its *)
(* run id and status running; a row that is running changes only to a row  *)
(* with a terminal status, and a row with a terminal status is never       *)
(* changed again; and every run id that is running in the table            *)
(* eventually is not.                                                      *)
C23_RunRowLifecycle ==
    /\ [][ /\ (scheduler.pc = "idle" /\ scheduler'.pc = "running") =>
                 /\ scheduler'.run_id \notin RunIds(pipeline_runs)
                 /\ Len(pipeline_runs') = Len(pipeline_runs) + 1
                 /\ SubSeq(pipeline_runs', 1, Len(pipeline_runs)) = pipeline_runs
                 /\ pipeline_runs'[Len(pipeline_runs')].run_id = scheduler'.run_id
                 /\ pipeline_runs'[Len(pipeline_runs')].status = "running"
           /\ (scheduler.pc = "running" /\ scheduler'.pc = "idle") =>
                 \E i \in 1..Len(pipeline_runs) :
                    /\ pipeline_runs[i].run_id = scheduler.run_id
                    /\ pipeline_runs[i].status = "running"
                    /\ IsTerminal(pipeline_runs'[i])
                    /\ \A k \in 1..Len(pipeline_runs) :
                          k /= i => pipeline_runs'[k] = pipeline_runs[k]
           /\ \A run \in RowsOf(pipeline_runs) :
                 /\ IsTerminal(run) =>
                       \/ run \in RowsOf(pipeline_runs')
                       \/ run.run_id \notin RunIds(pipeline_runs')
                 /\ run.status = "running" =>
                       \A after \in RowsOf(pipeline_runs') :
                          after.run_id = run.run_id => (after = run \/ IsTerminal(after))
         ]_vars
    /\ \A run_id \in 1..MaxStarts : (run_id \in RunningIds) ~> (run_id \notin RunningIds)

(* Two runs have started and both rows have left running for failed *)
C23_Witness ==
    /\ scheduler.pc = "idle"
    /\ scheduler.log = <<1, 2>>
    /\ Len(pipeline_runs) = 2
    /\ \A i \in 1..2 : pipeline_runs[i].status = "failed" /\ pipeline_runs[i].run_id = i

CurrentRows(dim, customer_id) ==
    { i \in 1..Len(dim) : dim[i].customer_id = customer_id /\ dim[i].is_current }

(* C25: a run of the SCD Type 2 step that follows an earlier run with the  *)
(* same snapshot adds no row to dim_customer, and after every run each     *)
(* customer has at most one current row and no two rows of the table have  *)
(* the same customer_id and version.                                       *)
C25_ScdIdempotent ==
    [][ utcnow' /= utcnow =>
           /\ utcnow >= 1 => Len(dim_customer') = Len(dim_customer)
           /\ \A c \in Customers : Cardinality(CurrentRows(dim_customer', c)) <= 1
           /\ dup_count(dim_customer') = 0
      ]_vars

Accepted == { t \in Threads : threads[t].decision.action = "auto_approve" }

Occurrences(seq, x) == Cardinality({ i \in 1..Len(seq) : seq[i] = x })

(* C27: when the ingestions of a table that ran at the same time on one    *)
(* manager have all returned, the version of the table is its first        *)
(* version plus the number of change sets that were auto-approved, and     *)
(* every new column of an auto-approved change set is in optional once.    *)
C27_NoLostUpdate ==
    (\A t \in Threads : threads[t].pc = "returned") =>
        LET entry == schema_registry["test_table"]
        IN  /\ entry.version = DefaultSchema.version + Cardinality(Accepted)
            /\ \A t \in Accepted : \A k \in 1..Len(threads[t].changes) :
                  threads[t].changes[k].type = "new_column" =>
                     Occurrences(entry.optional, threads[t].changes[k].column) = 1

====
